---- MODULE Spec2Model ----
(***************************************************************************)
(* Solar suitability analyzer (initAnalyzer): parameter scoring, the       *)
(* weighted final score, the decision display and the KML upload flow;     *)
(* the mounting of the SolarSuitability component; and the panel           *)
(* dashboard (App): panes, panel-data requests, compare and filter mode.   *)
(*                                                                         *)
(* Number representation.  JavaScript numbers are modelled as exact        *)
(* fixed-point integers:                                                   *)
(*   - raw parameter values, thresholds and ndvi are in tenths             *)
(*     (slope 10.0 is 100, ndvi -0.1 is -1);                               *)
(*   - land-cover codes and the land-ownership selection, after            *)
(*     Math.round / parseInt, are plain integers;                          *)
(*   - a score is in units of 1/ScoreUnit (score 10 is 10 * ScoreUnit);    *)
(*   - weights are in hundredths (0.20 is 20);                             *)
(*   - a weighted score and the final score are in units of 1/FinalUnit,   *)
(*     FinalUnit = 100 * ScoreUnit.                                        *)
(* ScoreUnit is chosen so that every interpolated score of a value given   *)
(* in tenths is an integer: (best - worst) divides 9 * ScoreUnit for each  *)
(* of the twelve threshold pairs.                                          *)
(* A JavaScript value is a record [t, n]: t is "number", "undefined" or    *)
(* "null"; n is the number (0 for undefined and null).                     *)
(* Where the rounding of the arithmetic matters, the final score is also   *)
(* computed in IEEE-754 binary64 (calculateFinalScore64).                  *)
(***************************************************************************)
EXTENDS Integers, Sequences, FiniteSets, TLC

VARIABLES
    \* --- DOM / module state of initAnalyzer ---
    landOwnershipSelect,   \* value of the #land-ownership dropdown (1 or 2)
    currentKmlData,        \* upload id of the parsed KML, or 0 for null
    areaAnalysisResults,   \* sequence of results used for the score overlay
    fullAreaResults,       \* sequence of full-area results
    decisionResult,        \* text of #decision-result
    finalScoreDisplay,     \* number last written to #final-score (FinalUnit), -1 for "--"
    suggestionsList,       \* sequence of suggestion keys shown in #suggestions-list
    loaderHidden,          \* #loader has class hidden
    progressHidden,        \* #progress-container has class hidden
    errorHidden,           \* #error-message has class hidden
    resultsContentHidden,  \* #results-content has class hidden
    uploads,               \* the reader.onload coroutines started so far
    \* --- last application of a pure scoring function ---
    op,                    \* name of the function applied ("none": no call)
    arg,                   \* its arguments
    called,                \* whether it has been applied
    ret,                   \* its results (<<>> before the call)
    \* --- the SolarSuitability component and the module of initAnalyzer ---
    initialized,           \* the module-level flag of initAnalyzer
    mounted,               \* the component is mounted
    mountCount,            \* mounts so far; the elements rendered by mount k are DOM generation k
    interval,              \* the polling interval of the current mount is running
    listeners,             \* per DOM generation: times the click/change listeners were attached
    \* --- state of App (panel dashboard) ---
    isAuthed,
    panes,                 \* sequence of the panel ids of the panes
    panelDataMap,          \* [panel, parameter] -> entry
    selectedParameters,
    dateRange,             \* the pair (startDate, endDate), as the index of a range
    analyzeTick,
    compareMode,
    compareState,
    filterMode,
    filterMatchedIds,
    analyzeCalls,          \* handleAnalyze calls waiting for fetchAllLstData
    panelRequests,         \* panel-data requests in flight
    compareRequests        \* handleCompareAnalyse calls waiting for getPanelById

vars == <<landOwnershipSelect, currentKmlData, areaAnalysisResults, fullAreaResults,
          decisionResult, finalScoreDisplay, suggestionsList, loaderHidden,
          progressHidden, errorHidden, resultsContentHidden, uploads, op, arg, called, ret,
          initialized, mounted, mountCount, interval, listeners,
          isAuthed, panes, panelDataMap, selectedParameters, dateRange,
          analyzeTick, compareMode, compareState, filterMode, filterMatchedIds,
          analyzeCalls, panelRequests, compareRequests>>

domVars == <<currentKmlData, areaAnalysisResults, fullAreaResults,
             decisionResult, finalScoreDisplay, suggestionsList, loaderHidden,
             progressHidden, errorHidden, resultsContentHidden, uploads>>

callVars == <<op, arg, called, ret>>

mountVars == <<initialized, mounted, mountCount, interval, listeners>>

\* the panes and their data
panelVars == <<panes, panelDataMap, selectedParameters, dateRange,
               analyzeTick, analyzeCalls, panelRequests>>

\* compare mode and filter mode
modeVars == <<compareMode, compareState, filterMode, filterMatchedIds, compareRequests>>

appVars == <<isAuthed, panelVars, modeVars>>

----------------------------------------------------------------------------
\* Bounds of the model

\* number of sample points per threshold interval (interior points are
\* worst + k * (best - worst) / GridSteps, k = 1 .. GridSteps - 1)
GridSteps == 4

\* ndvi ranges over -MaxNdvi .. MaxNdvi tenths
MaxNdvi == 10

\* features (polygons) per uploaded file
MaxFeatures == 2

\* uploads started in one behaviour
MaxUploads == 2

\* polygon vertices lie on the grid 0..MaxCoord x 0..MaxCoord (degrees)
MaxCoord == 3

\* maxArea ranges over 1..MaxAreaHalves half square degrees (the default
\* 1.0 is 2)
MaxAreaHalves == 2

\* mounts of the SolarSuitability component
MaxMounts == 3

\* panel ids of the dashboard are 1 .. MaxPanels
MaxPanels == 1

\* panes open at a time
MaxPanes == 1

\* valid date ranges are 1 .. MaxRanges
MaxRanges == 2

\* completed handleAnalyze calls
MaxTicks == 1

\* compare analyses in flight at a time
MaxCompareRequests == 2

----------------------------------------------------------------------------
\* Units

ScoreUnit == 32 * 125 * 7 * 13

FinalUnit == 100 * ScoreUnit

----------------------------------------------------------------------------
\* JavaScript values

Num(x) == [t |-> "number", n |-> x]

Undefined == [t |-> "undefined", n |-> 0]

Null == [t |-> "null", n |-> 0]

\* value === undefined || value === null
IsMissing(v) == v.t = "undefined" \/ v.t = "null"

\* Relational comparison of a value with a number: ToNumber(undefined) is
\* NaN and every comparison with NaN is false; ToNumber(null) is 0.
JsLt(v, c) == v.t # "undefined" /\ v.n < c

JsLe(v, c) == v.t # "undefined" /\ v.n <= c

JsGt(v, c) == v.t # "undefined" /\ v.n > c

JsGe(v, c) == v.t # "undefined" /\ v.n >= c

\* Truthiness of a numeric-or-missing value: undefined, null and 0 are falsy
Truthy(v) == v.t = "number" /\ v.n # 0

Min(a, b) == IF a <= b THEN a ELSE b

Max(a, b) == IF a >= b THEN a ELSE b

----------------------------------------------------------------------------
\* JavaScript numbers: IEEE-754 binary64 arithmetic, round to nearest, ties
\* to even.  A natural number is a sequence of limbs, least significant
\* first, without leading zero limbs; a double is [m, e] with value
\* m * 2^e and m of exactly 53 bits, or m = <<>> for 0.  Only finite,
\* non-negative, normal doubles occur in the aggregation.

LimbBits == 15

LimbBase == 2 ^ LimbBits

\* the limbs of a number below 2^31
BigOfNat(n) ==
    IF n = 0 THEN <<>>
    ELSE IF n < LimbBase THEN <<n>>
    ELSE IF n < LimbBase * LimbBase THEN <<n % LimbBase, n \div LimbBase>>
    ELSE <<n % LimbBase, (n \div LimbBase) % LimbBase, n \div (LimbBase * LimbBase)>>

RECURSIVE BigNorm(_)
BigNorm(a) ==
    IF a = <<>> THEN a
    ELSE IF a[Len(a)] = 0 THEN BigNorm(SubSeq(a, 1, Len(a) - 1))
    ELSE a

Limb(a, k) == IF k <= Len(a) THEN a[k] ELSE 0

\* limbs k, k + 1, ... of a + b + carry
RECURSIVE BigAddFrom(_, _, _, _)
BigAddFrom(a, b, k, carry) ==
    IF k > Len(a) /\ k > Len(b)
    THEN IF carry = 0 THEN <<>> ELSE <<carry>>
    ELSE LET t == Limb(a, k) + Limb(b, k) + carry
         IN <<t % LimbBase>> \o BigAddFrom(a, b, k + 1, t \div LimbBase)

BigAdd(a, b) == BigAddFrom(a, b, 1, 0)

\* limbs k, k + 1, ... of a * c + carry, c below LimbBase
RECURSIVE BigMulSmallFrom(_, _, _, _)
BigMulSmallFrom(a, c, k, carry) ==
    IF k > Len(a) THEN BigOfNat(carry)
    ELSE LET t == a[k] * c + carry
         IN <<t % LimbBase>> \o BigMulSmallFrom(a, c, k + 1, t \div LimbBase)

BigMulSmall(a, c) == IF c = 0 THEN <<>> ELSE BigMulSmallFrom(a, c, 1, 0)

\* a * LimbBase^n
BigShiftLimbs(a, n) == IF a = <<>> THEN <<>> ELSE [k \in 1..n |-> 0] \o a

RECURSIVE BigMulFrom(_, _, _)
BigMulFrom(a, b, j) ==
    IF j > Len(b) THEN <<>>
    ELSE BigAdd(BigShiftLimbs(BigMulSmall(a, b[j]), j - 1), BigMulFrom(a, b, j + 1))

BigMul(a, b) == BigNorm(BigMulFrom(a, b, 1))

\* a * 2^n
BigShl(a, n) ==
    BigShiftLimbs(BigMulSmall(a, 2 ^ (n % LimbBits)), n \div LimbBits)

\* quotient limbs 1 .. k and remainder of (rem, a[k], ..., a[1]) / c
RECURSIVE BigDivSmallFrom(_, _, _, _)
BigDivSmallFrom(a, c, k, rem) ==
    IF k = 0 THEN [q |-> <<>>, r |-> rem]
    ELSE LET t     == rem * LimbBase + a[k]
             lower == BigDivSmallFrom(a, c, k - 1, t % c)
         IN [q |-> Append(lower.q, t \div c), r |-> lower.r]

\* floor(a / c) and a mod c, c at most LimbBase
BigDivSmall(a, c) ==
    LET d == BigDivSmallFrom(a, c, Len(a), 0)
    IN [q |-> BigNorm(d.q), r |-> d.r]

\* floor(a / 2^n)
BigShr(a, n) ==
    IF n \div LimbBits >= Len(a) THEN <<>>
    ELSE BigDivSmall(SubSeq(a, n \div LimbBits + 1, Len(a)), 2 ^ (n % LimbBits)).q

RECURSIVE BitLenLimb(_)
BitLenLimb(x) == IF x = 0 THEN 0 ELSE 1 + BitLenLimb(x \div 2)

BitLen(a) ==
    IF a = <<>> THEN 0 ELSE (Len(a) - 1) * LimbBits + BitLenLimb(a[Len(a)])

\* bit i of a (bit 0 is the least significant)
Bit(a, i) == (Limb(a, i \div LimbBits + 1) \div (2 ^ (i % LimbBits))) % 2

\* some bit below bit i of a is set
AnyBitBelow(a, i) ==
    \E k \in 1..Len(a) :
        /\ (k - 1) * LimbBits < i
        /\ IF k * LimbBits <= i THEN a[k] # 0
           ELSE a[k] % (2 ^ (i - (k - 1) * LimbBits)) # 0

\* a < b, compared from limb k downwards (equal above k)
RECURSIVE BigLessFrom(_, _, _)
BigLessFrom(a, b, k) ==
    IF k = 0 THEN FALSE
    ELSE IF a[k] # b[k] THEN a[k] < b[k]
    ELSE BigLessFrom(a, b, k - 1)

BigLess(a, b) ==
    IF Len(a) # Len(b) THEN Len(a) < Len(b) ELSE BigLessFrom(a, b, Len(a))

DoubleZero == [m |-> <<>>, e |-> 0]

\* the double nearest to x * 2^e, ties to even
RoundToDouble(x, e) ==
    LET len == BitLen(x)
    IN IF len = 0 THEN DoubleZero
       ELSE IF len <= 53 THEN [m |-> BigShl(x, 53 - len), e |-> e - (53 - len)]
       ELSE LET n  == len - 53
                q  == BigShr(x, n)
                up == Bit(x, n - 1) = 1 /\ (AnyBitBelow(x, n - 1) \/ Bit(q, 0) = 1)
                r  == IF up THEN BigAdd(q, <<1>>) ELSE q
            IN IF BitLen(r) = 54 THEN [m |-> BigShr(r, 1), e |-> e + n + 1]
               ELSE [m |-> r, e |-> e + n]

\* the value of the decimal literal n / d (d a power of ten below LimbBase)
DoubleOfDecimal(n, d) ==
    LET dv == BigDivSmall(BigShl(BigOfNat(n), 80), d)
    IN RoundToDouble(BigAdd(BigMulSmall(dv.q, 2), IF dv.r = 0 THEN <<>> ELSE <<1>>), -81)

\* a * b
DoubleMul(a, b) == RoundToDouble(BigMul(a.m, b.m), a.e + b.e)

\* a + b
DoubleAdd(a, b) ==
    IF a.m = <<>> THEN b
    ELSE IF b.m = <<>> THEN a
    ELSE LET e == Min(a.e, b.e)
         IN RoundToDouble(BigAdd(BigShl(a.m, a.e - e), BigShl(b.m, b.e - e)), e)

\* a < b
DoubleLess(a, b) ==
    IF b.m = <<>> THEN FALSE
    ELSE IF a.m = <<>> THEN TRUE
    ELSE IF a.e # b.e THEN a.e < b.e
    ELSE BigLess(a.m, b.m)

\* Math.min and Math.max
DoubleMin(a, b) == IF DoubleLess(b, a) THEN b ELSE a

DoubleMax(a, b) == IF DoubleLess(a, b) THEN b ELSE a

----------------------------------------------------------------------------
\* Configuration

NoThresholds == [best |-> 0, worst |-> 0]

Threshold(k, w, hib, b, wo) ==
    [key |-> k, weight |-> w, hasThresholds |-> TRUE, higherIsBetter |-> hib,
     thresholds |-> [best |-> b, worst |-> wo]]

Special(k, w) ==
    [key |-> k, weight |-> w, hasThresholds |-> FALSE, higherIsBetter |-> FALSE,
     thresholds |-> NoThresholds]

\* mutant: landCover keeps a weight of 0.15, the weights no longer sum to 1
parametersConfig_oldWeights == <<
    Threshold("slope", 20, FALSE, 100, 200),
    Threshold("ghi", 15, TRUE, 40, 30),
    Threshold("temperature", 7, FALSE, 250, 400),
    Special("elevation", 3),
    Special("landCover", 15),
    Threshold("proximityToLines", 10, FALSE, 10, 150),
    Threshold("proximityToRoads", 5, FALSE, 10, 100),
    Threshold("waterAvailability", 5, FALSE, 20, 150),
    Threshold("soilStability", 5, TRUE, 1000, 200),
    Threshold("shading", 5, TRUE, 2000, 1000),
    Threshold("dust", 3, FALSE, 1, 5),
    Threshold("windSpeed", 2, FALSE, 200, 900),
    Threshold("seismicRisk", 2, FALSE, 1, 4),
    Threshold("floodRisk", 2, FALSE, 0, 50),
    Special("landOwnership", 6) >>

\* mutant: GHI is scored between 4.0 (worst) and 5.5 (best)
parametersConfig_ghiFromFour == <<
    Threshold("slope", 20, FALSE, 100, 200),
    Threshold("ghi", 15, TRUE, 55, 40),
    Threshold("temperature", 7, FALSE, 250, 400),
    Special("elevation", 3),
    Special("landCover", 10),
    Threshold("proximityToLines", 10, FALSE, 10, 150),
    Threshold("proximityToRoads", 5, FALSE, 10, 100),
    Threshold("waterAvailability", 5, FALSE, 20, 150),
    Threshold("soilStability", 5, TRUE, 1000, 200),
    Threshold("shading", 5, TRUE, 2000, 1000),
    Threshold("dust", 3, FALSE, 1, 5),
    Threshold("windSpeed", 2, FALSE, 200, 900),
    Threshold("seismicRisk", 2, FALSE, 1, 4),
    Threshold("floodRisk", 2, FALSE, 0, 50),
    Special("landOwnership", 6) >>

parametersConfig == <<
    Threshold("slope", 20, FALSE, 100, 200),
    Threshold("ghi", 15, TRUE, 40, 30),
    Threshold("temperature", 7, FALSE, 250, 400),
    Special("elevation", 3),
    Special("landCover", 10),
    Threshold("proximityToLines", 10, FALSE, 10, 150),
    Threshold("proximityToRoads", 5, FALSE, 10, 100),
    Threshold("waterAvailability", 5, FALSE, 20, 150),
    Threshold("soilStability", 5, TRUE, 1000, 200),
    Threshold("shading", 5, TRUE, 2000, 1000),
    Threshold("dust", 3, FALSE, 1, 5),
    Threshold("windSpeed", 2, FALSE, 200, 900),
    Threshold("seismicRisk", 2, FALSE, 1, 4),
    Threshold("floodRisk", 2, FALSE, 0, 50),
    Special("landOwnership", 6) >>

NumParams == Len(parametersConfig)

ParamIdx == 1..NumParams

Keys == {parametersConfig[i].key : i \in ParamIdx}

ThresholdIdx == {i \in ParamIdx : parametersConfig[i].hasThresholds}

\* mutant: tree cover has factor 0.6
landUsabilityFactors_treesUsable ==
    (10 :> 6) @@ (20 :> 8) @@ (30 :> 10) @@ (40 :> 6) @@ (50 :> 1) @@ (60 :> 10) @@
    (70 :> 0) @@ (80 :> 0) @@ (90 :> 2) @@ (95 :> 2) @@ (100 :> 5)

\* landUsabilityFactors, in tenths, keyed by land-cover code
landUsabilityFactors ==
    (10 :> 3) @@ (20 :> 8) @@ (30 :> 10) @@ (40 :> 6) @@ (50 :> 1) @@ (60 :> 10) @@
    (70 :> 0) @@ (80 :> 0) @@ (90 :> 2) @@ (95 :> 2) @@ (100 :> 5)

----------------------------------------------------------------------------
\* Scoring functions

\* fixPrecisionIssues: Math.round for the categorical keys.  The argument is
\* in tenths, the rounded result is a plain integer: Math.round(x) is
\* floor(x + 0.5).
fixPrecisionIssues(key, value) ==
    IF IsMissing(value) THEN value
    ELSE IF key = "landCover" \/ key = "landOwnership"
         THEN Num((value.n + 5) \div 10)
         ELSE value

\* mutant: the interpolation is measured from best instead of worst
calculateScore_fromBest(value, param) ==
    IF IsMissing(value) THEN 0
    ELSE LET best  == param.thresholds.best
             worst == param.thresholds.worst
         IN IF param.higherIsBetter
            THEN IF value.n >= best THEN 10 * ScoreUnit
                 ELSE IF value.n <= worst THEN 1 * ScoreUnit
                 ELSE ScoreUnit + ((9 * ScoreUnit) \div (best - worst)) * (best - value.n)
            ELSE IF value.n <= best THEN 10 * ScoreUnit
                 ELSE IF value.n >= worst THEN 1 * ScoreUnit
                 ELSE ScoreUnit + ((9 * ScoreUnit) \div (worst - best)) * (value.n - best)

\* mutant: a missing value is scored like the worst case
calculateScore_missingIsWorst(value, param) ==
    IF IsMissing(value) THEN 1 * ScoreUnit
    ELSE LET best  == param.thresholds.best
             worst == param.thresholds.worst
         IN IF param.higherIsBetter
            THEN IF value.n >= best THEN 10 * ScoreUnit
                 ELSE IF value.n <= worst THEN 1 * ScoreUnit
                 ELSE ScoreUnit + ((9 * ScoreUnit) \div (best - worst)) * (value.n - worst)
            ELSE IF value.n <= best THEN 10 * ScoreUnit
                 ELSE IF value.n >= worst THEN 1 * ScoreUnit
                 ELSE ScoreUnit + ((9 * ScoreUnit) \div (worst - best)) * (worst - value.n)

\* mutant: higherIsBetter is ignored, every parameter is scored as
\* lower-is-better
calculateScore_ignoresDirection(value, param) ==
    IF IsMissing(value) THEN 0
    ELSE LET best  == param.thresholds.best
             worst == param.thresholds.worst
         IN IF value.n <= best THEN 10 * ScoreUnit
            ELSE IF value.n >= worst THEN 1 * ScoreUnit
            ELSE ScoreUnit + ((9 * ScoreUnit) \div (worst - best)) * (worst - value.n)

calculateScore(value, param) ==
    IF IsMissing(value) THEN 0
    ELSE LET best  == param.thresholds.best
             worst == param.thresholds.worst
         IN IF param.higherIsBetter
            THEN IF value.n >= best THEN 10 * ScoreUnit
                 ELSE IF value.n <= worst THEN 1 * ScoreUnit
                 ELSE ScoreUnit + ((9 * ScoreUnit) \div (best - worst)) * (value.n - worst)
            ELSE IF value.n <= best THEN 10 * ScoreUnit
                 ELSE IF value.n >= worst THEN 1 * ScoreUnit
                 ELSE ScoreUnit + ((9 * ScoreUnit) \div (worst - best)) * (worst - value.n)

\* mutant: the shrubland branch is missing, shrubland gets the default 5
landCoverBaseScore_noShrubland(landCoverCode, rawData) ==
    LET isCode(c) == landCoverCode.t = "number" /\ landCoverCode.n = c
    IN IF isCode(50) THEN 1
       ELSE IF isCode(80) \/ isCode(90) \/ isCode(95)
            THEN IF rawData.ndvi.t # "undefined" /\ JsLt(rawData.ndvi, 1) THEN 0 ELSE 2
       ELSE IF isCode(10) THEN 3
       ELSE IF isCode(30) \/ isCode(40) \/ isCode(60) THEN 10
       ELSE 5

\* the class table of calculateEnhancedLandCoverScore, before the
\* vegetation correction (score points, not yet scaled)
landCoverBaseScore(landCoverCode, rawData) ==
    LET isCode(c) == landCoverCode.t = "number" /\ landCoverCode.n = c
    IN IF isCode(50) THEN 1
       ELSE IF isCode(80) \/ isCode(90) \/ isCode(95)
            THEN IF rawData.ndvi.t # "undefined" /\ JsLt(rawData.ndvi, 1) THEN 0 ELSE 2
       ELSE IF isCode(10) THEN 3
       ELSE IF isCode(30) \/ isCode(40) \/ isCode(60) THEN 10
       ELSE IF isCode(20) THEN 8
       ELSE 5

\* mutant: landUsabilityFactors[landCoverCode] || 1.0
landUsabilityFactor_defaultOne(landCoverCode) ==
    IF landCoverCode.t = "number" /\ landCoverCode.n \in DOMAIN landUsabilityFactors
       /\ landUsabilityFactors[landCoverCode.n] # 0
    THEN landUsabilityFactors[landCoverCode.n]
    ELSE 10

\* landUsabilityFactors[landCoverCode] || 0.5, in tenths
landUsabilityFactor(landCoverCode) ==
    IF landCoverCode.t = "number" /\ landCoverCode.n \in DOMAIN landUsabilityFactors
       /\ landUsabilityFactors[landCoverCode.n] # 0
    THEN landUsabilityFactors[landCoverCode.n]
    ELSE 5

\* mutant: water scores 2 as wetlands do
calculateEnhancedLandCoverScore_waterAsWetland(landCoverCode, rawData) ==
    IF rawData.ndvi.t # "undefined" /\ JsLt(rawData.ndvi, -1) THEN 2 * ScoreUnit
    ELSE LET baseScore == Max(2, landCoverBaseScore(landCoverCode, rawData)) * ScoreUnit
             factor    == landUsabilityFactor(landCoverCode)
             vegetationAdjustment == rawData.ndvi.n * 2 * factor * (ScoreUnit \div 1000)
         IN IF Truthy(rawData.ndvi) /\ JsGt(rawData.ndvi, 3) /\ baseScore > 0
               /\ factor >= 6
            THEN Min(10 * ScoreUnit, baseScore + vegetationAdjustment)
            ELSE baseScore

\* mutant: the corrected score is not cut off at 10
calculateEnhancedLandCoverScore_uncapped(landCoverCode, rawData) ==
    IF rawData.ndvi.t # "undefined" /\ JsLt(rawData.ndvi, -1) THEN 0
    ELSE LET baseScore == landCoverBaseScore(landCoverCode, rawData) * ScoreUnit
             factor    == landUsabilityFactor(landCoverCode)
             vegetationAdjustment == rawData.ndvi.n * 2 * factor * (ScoreUnit \div 1000)
         IN IF Truthy(rawData.ndvi) /\ JsGt(rawData.ndvi, 3) /\ baseScore > 0
               /\ factor >= 6
            THEN baseScore + vegetationAdjustment
            ELSE baseScore

\* mutant: no water override by ndvi
calculateEnhancedLandCoverScore_noOverride(landCoverCode, rawData) ==
    LET baseScore == landCoverBaseScore(landCoverCode, rawData) * ScoreUnit
        factor    == landUsabilityFactor(landCoverCode)
        vegetationAdjustment == rawData.ndvi.n * 2 * factor * (ScoreUnit \div 1000)
    IN IF Truthy(rawData.ndvi) /\ JsGt(rawData.ndvi, 3) /\ baseScore > 0
          /\ factor >= 6
       THEN Min(10 * ScoreUnit, baseScore + vegetationAdjustment)
       ELSE baseScore

calculateEnhancedLandCoverScore(landCoverCode, rawData) ==
    IF rawData.ndvi.t # "undefined" /\ JsLt(rawData.ndvi, -1) THEN 0
    ELSE LET baseScore == landCoverBaseScore(landCoverCode, rawData) * ScoreUnit
             factor    == landUsabilityFactor(landCoverCode)
             \* ndvi * 0.2 * landUsabilityFactor: tenths * tenths * tenths
             vegetationAdjustment == rawData.ndvi.n * 2 * factor * (ScoreUnit \div 1000)
         IN IF Truthy(rawData.ndvi) /\ JsGt(rawData.ndvi, 3) /\ baseScore > 0
               /\ factor >= 6
            THEN Min(10 * ScoreUnit, baseScore + vegetationAdjustment)
            ELSE baseScore

\* mutant: the ownership score is taken from the record of the service
paramScore_rawOwnership(param, rawData) ==
    LET rawValue == fixPrecisionIssues(param.key, rawData[param.key])
    IN IF param.key = "landOwnership"
       THEN IF rawValue = Num(10) THEN 10 * ScoreUnit ELSE 5 * ScoreUnit
       ELSE IF param.key = "elevation"
       THEN IF JsGe(rawValue, 500) /\ JsLe(rawValue, 15000)
            THEN 10 * ScoreUnit ELSE 2 * ScoreUnit
       ELSE IF param.key = "landCover"
       THEN calculateEnhancedLandCoverScore(rawValue, rawData)
       ELSE IF param.hasThresholds
       THEN calculateScore(rawValue, param)
       ELSE 5 * ScoreUnit

\* the body of the parametersConfig.forEach loop: the score of one parameter
paramScore(param, rawData) ==
    LET rawValue == fixPrecisionIssues(param.key, rawData[param.key])
    IN IF param.key = "landOwnership"
       THEN IF landOwnershipSelect = 1 THEN 10 * ScoreUnit ELSE 5 * ScoreUnit
       ELSE IF param.key = "elevation"
       THEN IF JsGe(rawValue, 500) /\ JsLe(rawValue, 15000)
            THEN 10 * ScoreUnit ELSE 2 * ScoreUnit
       ELSE IF param.key = "landCover"
       THEN calculateEnhancedLandCoverScore(rawValue, rawData)
       ELSE IF param.hasThresholds
       THEN calculateScore(rawValue, param)
       ELSE 5 * ScoreUnit

\* mutant: the weight is one hundredth too large
weightedScore_heavier(param, rawData) == paramScore(param, rawData) * (param.weight + 1)

weightedScore(param, rawData) == paramScore(param, rawData) * param.weight

\* totalWeightedScore after the first i parameters of the forEach loop
RECURSIVE totalWeightedScore(_, _)
totalWeightedScore(rawData, i) ==
    IF i = 0 THEN 0
    ELSE totalWeightedScore(rawData, i - 1) + weightedScore(parametersConfig[i], rawData)

\* mutant: once a result is stored its score is returned for every record
calculateFinalScore_cached(rawData) ==
    IF fullAreaResults # <<>> THEN fullAreaResults[1].finalScore
    ELSE Min(10 * FinalUnit, Max(0, totalWeightedScore(rawData, NumParams)))

calculateFinalScore(rawData) ==
    Min(10 * FinalUnit, Max(0, totalWeightedScore(rawData, NumParams)))

\* The same loop in the arithmetic of JavaScript numbers, for the records
\* none of whose scores is interpolated (every score is one of the literals
\* 0, 1, 2, 5, 10 or a whole land-cover score).

\* param.weight as the number the literal denotes
weight64 == [i \in ParamIdx |-> DoubleOfDecimal(parametersConfig[i].weight, 100)]

\* score * param.weight
weightedScore64(i, rawData) ==
    DoubleMul(DoubleOfDecimal(paramScore(parametersConfig[i], rawData) \div ScoreUnit, 1),
              weight64[i])

\* mutant: the loop runs from the last parameter to the first
RECURSIVE totalWeightedScore64_fromLast(_, _)
totalWeightedScore64_fromLast(rawData, i) ==
    IF i = 0 THEN DoubleZero
    ELSE DoubleAdd(totalWeightedScore64_fromLast(rawData, i - 1),
                   weightedScore64(NumParams + 1 - i, rawData))

\* totalWeightedScore after the first i parameters
RECURSIVE totalWeightedScore64(_, _)
totalWeightedScore64(rawData, i) ==
    IF i = 0 THEN DoubleZero
    ELSE DoubleAdd(totalWeightedScore64(rawData, i - 1), weightedScore64(i, rawData))

calculateFinalScore64(rawData) ==
    DoubleMin(DoubleOfDecimal(10, 1),
              DoubleMax(DoubleZero, totalWeightedScore64(rawData, NumParams)))

----------------------------------------------------------------------------
\* Inputs of the scoring functions

\* Sample raw values of a threshold parameter: level 0 is the worst
\* threshold, level GridSteps the best one, levels in between are equally
\* spaced interior points, level -1 lies beyond worst and level
\* GridSteps + 1 beyond best.
LevelValue(param, l) ==
    LET best  == param.thresholds.best
        worst == param.thresholds.worst
    IN Num(worst + (l * (best - worst)) \div GridSteps)

Levels == (-1)..(GridSteps + 1)

SampleValues(param) == {LevelValue(param, l) : l \in Levels}

MissingValues == {Undefined, Null}

NdviValues == {Num(x) : x \in (-MaxNdvi)..MaxNdvi} \cup MissingValues

\* land-cover codes as passed to calculateEnhancedLandCoverScore
LandCoverCodes ==
    {Num(c) : c \in {10, 20, 30, 40, 50, 60, 70, 80, 90, 95, 100, 0, 25, 31}}
        \cup MissingValues

\* raw landCover values of the service, in tenths (29.6 is 296)
RawLandCovers == {Num(300), Num(296), Num(305), Num(500), Num(800), Num(200), Undefined}

RawNdvis == {Num(-2), Num(0), Num(1), Num(3), Num(5), Undefined, Null}

RawElevations == {Num(499), Num(500), Num(15000), Num(15001), Undefined, Null}

\* landOwnership as the service may send it: 1, 2, absent, null
RawOwnerships == {Num(10), Num(20), Undefined, Null}

\* levels given to all threshold parameters at once
BaseLevels == {-1, GridSteps \div 2, GridSteps + 1}

BaseProfiles ==
    {[i \in ParamIdx |-> LevelValue(parametersConfig[i], l)] : l \in BaseLevels}
        \cup {[i \in ParamIdx |-> m] : m \in MissingValues}

\* a record of the analysis service: threshold parameter i has value
\* profile[i]
RawData(profile, elev, lc, ndvi, own) ==
    [k \in Keys \cup {"ndvi"} |->
        IF k = "ndvi" THEN ndvi
        ELSE IF k = "elevation" THEN elev
        ELSE IF k = "landCover" THEN lc
        ELSE IF k = "landOwnership" THEN own
        ELSE profile[CHOOSE j \in ParamIdx : parametersConfig[j].key = k]]

\* perfectData of window.testScoring
perfectData ==
    [slope |-> Num(50), ghi |-> Num(55), temperature |-> Num(250),
     elevation |-> Num(1000), landCover |-> Num(300), ndvi |-> Num(3),
     proximityToLines |-> Num(10), proximityToRoads |-> Num(10),
     waterAvailability |-> Num(20), soilStability |-> Num(1000),
     shading |-> Num(2000), dust |-> Num(1), windSpeed |-> Num(200),
     seismicRisk |-> Num(1), floodRisk |-> Num(0), landOwnership |-> Undefined]

\* poorData of window.testScoring
poorData ==
    [slope |-> Num(200), ghi |-> Num(40), temperature |-> Num(450),
     elevation |-> Num(20000), landCover |-> Num(500), ndvi |-> Num(1),
     proximityToLines |-> Num(200), proximityToRoads |-> Num(150),
     waterAvailability |-> Num(200), soilStability |-> Num(100),
     shading |-> Num(500), dust |-> Num(8), windSpeed |-> Num(1000),
     seismicRisk |-> Num(5), floodRisk |-> Num(100), landOwnership |-> Undefined]

\* waterData of window.testScoring
waterData == [perfectData EXCEPT !.landCover = Num(800), !.ndvi = Num(-2)]

\* a site of medium quality: final score 6.22 on government land and 5.92
\* on private land
mediumData ==
    [perfectData EXCEPT !.slope = Num(200), !.ghi = Num(30), !.dust = Num(5),
                        !.windSpeed = Num(900), !.seismicRisk = Num(4)]

\* the three records of window.testScoring
ReferenceData == {perfectData, poorData, waterData}

\* records of sites whose threshold parameters all lie on (level GridSteps)
\* or beyond (level GridSteps + 1) the best threshold, next to records that
\* miss this by the land cover (shrubland, water) or by the ndvi
OptimalData ==
    {RawData([i \in ParamIdx |-> LevelValue(parametersConfig[i], l)], elev, lc, ndvi, Undefined) :
        l \in {GridSteps, GridSteps + 1}, elev \in {Num(500), Num(1000), Num(15000)},
        lc \in {Num(300), Num(400), Num(600), Num(200), Num(800)},
        ndvi \in {Num(-2), Num(-1), Num(0), Num(3), Num(MaxNdvi), Undefined}}

\* the profiles that differ from a base profile in at most one parameter
DevProfiles ==
    UNION {{[base EXCEPT ![dev] = v] :
                v \in SampleValues(parametersConfig[dev]) \cup MissingValues} :
           base \in BaseProfiles, dev \in ThresholdIdx}

\* records in which one threshold parameter deviates from the base profile
\* and records in which the special-cased inputs take every combination
RawDataSet ==
    {RawData(p, elev, Num(300), Num(3), Undefined) :
        p \in DevProfiles, elev \in {Num(1000), Undefined}}
    \cup
    {RawData(p, elev, lc, ndvi, own) :
        p \in BaseProfiles, elev \in RawElevations, lc \in RawLandCovers,
        ndvi \in RawNdvis, own \in RawOwnerships}

----------------------------------------------------------------------------
\* What displayResults and displayError write

\* mutant: the "Review" band starts at 6 as the band of analyzeGeometry does
displayResultsDecision_reviewFromSix(total) ==
    IF total >= 7 * FinalUnit THEN "Yes"
    ELSE IF total >= 6 * FinalUnit THEN "Review"
    ELSE "No"

\* decision bands of displayResults
displayResultsDecision(total) ==
    IF total >= 7 * FinalUnit THEN "Yes"
    ELSE IF total >= 5 * FinalUnit THEN "Review"
    ELSE "No"

\* mutant: a score of 5 gets a suggestion too
RECURSIVE suggestionsUpTo_atMostFive(_, _)
suggestionsUpTo_atMostFive(rawData, i) ==
    IF i = 0 THEN <<>>
    ELSE LET rest  == suggestionsUpTo_atMostFive(rawData, i - 1)
             param == parametersConfig[i]
         IN IF paramScore(param, rawData) <= 5 * ScoreUnit
            THEN Append(rest, param.key)
            ELSE rest

\* suggestions collected by the forEach loop of displayResults: the
\* suggestion of parameter i is represented by its key
RECURSIVE suggestionsUpTo(_, _)
suggestionsUpTo(rawData, i) ==
    IF i = 0 THEN <<>>
    ELSE LET rest  == suggestionsUpTo(rawData, i - 1)
             param == parametersConfig[i]
         IN IF paramScore(param, rawData) < 5 * ScoreUnit
            THEN Append(rest, param.key)
            ELSE rest

displayError ==
    /\ loaderHidden' = TRUE
    /\ resultsContentHidden' = TRUE
    /\ errorHidden' = FALSE

\* mutant: only the first three suggestions are shown
displayResults_topThree(analysisResult) ==
    LET rawData     == analysisResult.rawData
        total       == calculateFinalScore(rawData)
        suggestions == suggestionsUpTo(rawData, NumParams)
    IN /\ finalScoreDisplay' = total
       /\ decisionResult' = displayResultsDecision(total)
       /\ suggestionsList' = IF Len(suggestions) > 0
                             THEN SubSeq(suggestions, 1, Min(3, Len(suggestions)))
                             ELSE <<"Excellent site!">>

displayResults(analysisResult) ==
    LET rawData     == analysisResult.rawData
        total       == calculateFinalScore(rawData)
        suggestions == suggestionsUpTo(rawData, NumParams)
    IN /\ finalScoreDisplay' = total
       /\ decisionResult' = displayResultsDecision(total)
       /\ suggestionsList' = IF Len(suggestions) > 0 THEN suggestions
                             ELSE <<"Excellent site!">>

----------------------------------------------------------------------------
\* The polygon partitioner.  A polygon is [type, coordinates, den]: the ring
\* coordinates[k] = <<c0, c1>> holds the numerators of the JavaScript pair
\* [c0, c1] over the common denominator den (1 for an uploaded polygon,
\* gridSize for a grid cell), so that bounds + i * step is exact.  Areas are
\* in half square degrees.

SetMin(S) == CHOOSE x \in S : \A y \in S : x <= y

SetMax(S) == CHOOSE x \in S : \A y \in S : x >= y

\* L.polygon(latlngs).getBounds(): Leaflet reads each pair as [lat, lng]
getBounds(latlngs) ==
    LET lats == {latlngs[k][1] : k \in DOMAIN latlngs}
        lngs == {latlngs[k][2] : k \in DOMAIN latlngs}
    IN [south |-> SetMin(lats), north |-> SetMax(lats),
        west |-> SetMin(lngs), east |-> SetMax(lngs)]

\* the variable area of calculatePolygonArea after iterations 0 .. i - 1
RECURSIVE shoelace(_, _)
shoelace(coordinates, i) ==
    IF i = 0 THEN 0
    ELSE LET n == Len(coordinates) - 1
             j == (i % n) + 1
         IN shoelace(coordinates, i - 1)
              + coordinates[i][1] * coordinates[j][2]
              - coordinates[j][1] * coordinates[i][2]

\* Math.abs(area) / 2, in half square degrees
calculatePolygonArea(coordinates) ==
    LET area == shoelace(coordinates, Len(coordinates) - 1)
    IN IF area < 0 THEN -area ELSE area

\* Math.ceil(Math.sqrt(area / maxArea))
gridSize(area, maxArea) ==
    CHOOSE g \in 0..(area + 1) :
        /\ g * g * maxArea >= area
        /\ \A h \in 0..(g - 1) : h * h * maxArea < area

\* the cell of row i and column j, over the denominator gridSize
gridPolygon(bounds, g, i, j) ==
    LET latStep == bounds.north - bounds.south
        lngStep == bounds.east - bounds.west
        south == bounds.south * g + i * latStep
        north == bounds.south * g + (i + 1) * latStep
        west  == bounds.west * g + j * lngStep
        east  == bounds.west * g + (j + 1) * lngStep
    IN [type |-> "Polygon", den |-> g,
        coordinates |-> << <<west, south>>, <<east, south>>, <<east, north>>,
                           <<west, north>>, <<west, south>> >>]

polygonIntersects(poly1, poly2) ==
    LET bounds1 == getBounds(poly1.coordinates)
        bounds2 == getBounds(poly2.coordinates)
        d1 == poly1.den
        d2 == poly2.den
    IN ~ \/ bounds1.east * d2 < bounds2.west * d1
         \/ bounds1.west * d2 > bounds2.east * d1
         \/ bounds1.north * d2 < bounds2.south * d1
         \/ bounds1.south * d2 > bounds2.north * d1

\* mutant: a polygon of exactly maxArea is divided
dividePolygonIntoSubAreas_strict(polygon, maxArea) ==
    LET bounds == getBounds(polygon.coordinates)
        area   == calculatePolygonArea(polygon.coordinates)
    IN IF area < maxArea THEN <<polygon>>
       ELSE LET g == gridSize(area, maxArea)
                cells == [k \in 1..(g * g) |->
                             gridPolygon(bounds, g, (k - 1) \div g, (k - 1) % g)]
                subAreas == SelectSeq(cells, LAMBDA c : polygonIntersects(polygon, c))
            IN IF Len(subAreas) > 0 THEN subAreas ELSE <<polygon>>

dividePolygonIntoSubAreas(polygon, maxArea) ==
    LET bounds == getBounds(polygon.coordinates)
        area   == calculatePolygonArea(polygon.coordinates)
    IN IF area <= maxArea THEN <<polygon>>
       ELSE LET g == gridSize(area, maxArea)
                cells == [k \in 1..(g * g) |->
                             gridPolygon(bounds, g, (k - 1) \div g, (k - 1) % g)]
                subAreas == SelectSeq(cells, LAMBDA c : polygonIntersects(polygon, c))
            IN IF Len(subAreas) > 0 THEN subAreas ELSE <<polygon>>

\* vertices as [lng, lat] pairs, as cleanGeometry leaves them
Points == (0..MaxCoord) \X (0..MaxCoord)

\* closed rings of three vertices, collinear and repeated vertices included
Triangles == {<<a, b, c, a>> : a, b, c \in Points}

Rectangles ==
    {<< <<w, s>>, <<e, s>>, <<e, n>>, <<w, n>>, <<w, s>> >> :
        w, e, s, n \in 0..MaxCoord}

Polygons ==
    {[type |-> "Polygon", den |-> 1, coordinates |-> r] :
        r \in Triangles \cup {q \in Rectangles : q[1][1] < q[2][1] /\ q[1][2] < q[3][2]}}

dividePolygonIntoSubAreasArgs ==
    {[polygon |-> p, maxArea |-> m] : p \in Polygons, m \in 1..MaxAreaHalves}

----------------------------------------------------------------------------
\* Applications of the pure functions: the initial state holds the
\* function and its arguments, the action applies it once.

Init_dom ==
    /\ currentKmlData = 0
    /\ areaAnalysisResults = <<>>
    /\ fullAreaResults = <<>>
    /\ decisionResult = "--"
    /\ finalScoreDisplay = -1
    /\ suggestionsList = <<>>
    /\ loaderHidden = TRUE
    /\ progressHidden = TRUE
    /\ errorHidden = TRUE
    /\ resultsContentHidden = FALSE
    /\ uploads = <<>>

\* Panel dashboard (App): values of its state

Panels == 1..MaxPanels

\* the first two of the six parameters offered
PARAMETER_OPTIONS == {"LST", "SWIR"}

\* a pair (startDate, endDate): 1 .. MaxRanges are valid ranges, InvalidRange
\* is a pair that is not a date or whose start lies after its end, EmptyRange
\* the pair of empty strings
InvalidRange == 0

EmptyRange == -1

Ranges == 1..MaxRanges

\* panelDataMap[panel][parameter] is missing
NoEntry == [present |-> FALSE, error |-> FALSE, range |-> EmptyRange]

\* an entry of panelDataMap: data or an error, with the start_date and
\* end_date it was stored with
Entry(error, range) == [present |-> TRUE, error |-> error, range |-> range]

\* ids are panel ids, 0 for ''; range stands for startDate and endDate; data
\* is the id of the panel it belongs to, 0 for null; error says whether a
\* message is set and fieldErrors holds the fields that have one
defaultCompareState ==
    [idA |-> 0, idB |-> 0, range |-> EmptyRange, loading |-> FALSE, error |-> FALSE,
     dataA |-> 0, dataB |-> 0, fieldErrors |-> {}]

\* filterMatchedIds is null or a Set of panel ids
NullIds == [t |-> "null", ids |-> {}]

SetOfIds(ids) == [t |-> "set", ids |-> ids]

\* App before the first event; the session flag of localStorage is not set
Init_app ==
    /\ isAuthed = FALSE
    /\ panes = <<>>
    /\ panelDataMap = [q \in Panels \X PARAMETER_OPTIONS |-> NoEntry]
    /\ selectedParameters = {"LST"}
    /\ dateRange = 1
    /\ analyzeTick = 0
    /\ compareMode = FALSE
    /\ compareState = defaultCompareState
    /\ filterMode = FALSE
    /\ filterMatchedIds = NullIds
    /\ analyzeCalls = {}
    /\ panelRequests = {}
    /\ compareRequests = {}

\* the module before the component is first mounted
Init_mount ==
    /\ initialized = FALSE
    /\ mounted = FALSE
    /\ mountCount = 0
    /\ interval = FALSE
    /\ listeners = [g \in 1..MaxMounts |-> 0]

\* the component is mounted and initAnalyzer has run
Init_mounted ==
    /\ initialized = TRUE
    /\ mounted = TRUE
    /\ mountCount = 1
    /\ interval = FALSE
    /\ listeners = [g \in 1..MaxMounts |-> IF g = 1 THEN 1 ELSE 0]

Init_call ==
    /\ op = "none"
    /\ arg = <<>>
    /\ called = FALSE
    /\ ret = <<>>

calculateScoreArgs ==
    UNION {{[param |-> parametersConfig[i], v1 |-> v1, v2 |-> v2] :
                v1, v2 \in SampleValues(parametersConfig[i]) \cup MissingValues} :
           i \in ThresholdIdx}

calculateEnhancedLandCoverScoreArgs ==
    {[landCoverCode |-> code, rawData |-> [ndvi |-> ndvi]] :
        code \in LandCoverCodes, ndvi \in NdviValues}

calculateFinalScoreArgs ==
    {[rawData |-> r] : r \in RawDataSet \cup ReferenceData \cup OptimalData}

\* analysis results handed to displayResults
displayResultsArgs ==
    {[rawData |-> r] : r \in RawDataSet \cup ReferenceData \cup OptimalData}

\* calculateScore applied to two values of one threshold parameter
Call_calculateScore ==
    /\ op = "calculateScore" /\ ~called
    /\ called' = TRUE
    /\ ret' = [s1 |-> calculateScore(arg.v1, arg.param),
               s2 |-> calculateScore(arg.v2, arg.param)]
    /\ UNCHANGED <<landOwnershipSelect, domVars, op, arg>>
    /\ UNCHANGED <<mountVars, appVars>>

Call_calculateEnhancedLandCoverScore ==
    /\ op = "calculateEnhancedLandCoverScore" /\ ~called
    /\ called' = TRUE
    /\ ret' = [score |-> calculateEnhancedLandCoverScore(arg.landCoverCode, arg.rawData),
               baseScore |-> landCoverBaseScore(arg.landCoverCode, arg.rawData) * ScoreUnit]
    /\ UNCHANGED <<landOwnershipSelect, domVars, op, arg>>
    /\ UNCHANGED <<mountVars, appVars>>

Call_calculateFinalScore ==
    /\ op = "calculateFinalScore" /\ ~called
    /\ called' = TRUE
    /\ ret' = [finalScore |-> calculateFinalScore(arg.rawData),
               total |-> totalWeightedScore(arg.rawData, NumParams),
               scores |-> [i \in ParamIdx |-> paramScore(parametersConfig[i], arg.rawData)]]
    /\ UNCHANGED <<landOwnershipSelect, domVars, op, arg>>
    /\ UNCHANGED <<mountVars, appVars>>

\* displayResults applied to an analysis result; ret keeps the score column
\* of the decision matrix
Call_displayResults ==
    /\ op = "displayResults" /\ ~called
    /\ called' = TRUE
    /\ displayResults(arg)
    /\ ret' = [scores |-> [i \in ParamIdx |-> paramScore(parametersConfig[i], arg.rawData)]]
    /\ UNCHANGED <<landOwnershipSelect, currentKmlData, areaAnalysisResults,
                   fullAreaResults, loaderHidden, progressHidden, errorHidden,
                   resultsContentHidden, uploads, op, arg>>
    /\ UNCHANGED <<mountVars, appVars>>

Call_dividePolygonIntoSubAreas ==
    /\ op = "dividePolygonIntoSubAreas" /\ ~called
    /\ called' = TRUE
    /\ ret' = [subAreas |-> dividePolygonIntoSubAreas(arg.polygon, arg.maxArea)]
    /\ UNCHANGED <<landOwnershipSelect, domVars, op, arg>>
    /\ UNCHANGED <<mountVars, appVars>>

InitScore ==
    /\ landOwnershipSelect \in {1, 2}
    /\ Init_dom
    /\ Init_mounted
    /\ Init_app
    /\ called = FALSE
    /\ ret = <<>>
    /\ \/ op = "calculateScore" /\ arg \in calculateScoreArgs
       \/ op = "calculateEnhancedLandCoverScore" /\ arg \in calculateEnhancedLandCoverScoreArgs
       \/ op = "calculateFinalScore" /\ arg \in calculateFinalScoreArgs
       \/ op = "displayResults" /\ arg \in displayResultsArgs
       \/ op = "dividePolygonIntoSubAreas" /\ arg \in dividePolygonIntoSubAreasArgs

NextScore ==
    \/ Call_calculateScore
    \/ Call_calculateEnhancedLandCoverScore
    \/ Call_calculateFinalScore
    \/ Call_displayResults
    \/ Call_dividePolygonIntoSubAreas

SpecScore == InitScore /\ [][NextScore]_vars

----------------------------------------------------------------------------
\* The KML upload flow

\* records the analysis service answers with in the upload flow
UploadRawData == {perfectData, mediumData, poorData}

\* label and bands written by analyzeGeometry (Step 4)
analyzeGeometryLabel(finalScore) ==
    IF finalScore >= 6 * FinalUnit THEN "Highly Suitable" ELSE "Not Suitable"

\* run-to-completion: the continuation of an await on an already settled
\* promise runs before any other event
NoMicrotask == \A u \in DOMAIN uploads : uploads[u].pc # "returned"

\* handleKmlUpload up to reader.readAsText(file); n is the number of
\* polygons in the chosen file
handleKmlUpload ==
    /\ NoMicrotask
    /\ Len(uploads) < MaxUploads
    /\ \E n \in 0..MaxFeatures, tooLarge \in BOOLEAN :
         IF tooLarge
         THEN /\ displayError
              /\ UNCHANGED <<currentKmlData, areaAnalysisResults, fullAreaResults,
                             progressHidden, uploads>>
         ELSE \* clearPreviousResults, then the loading indicator
              /\ currentKmlData' = 0
              /\ areaAnalysisResults' = <<>>
              /\ fullAreaResults' = <<>>
              /\ resultsContentHidden' = TRUE
              /\ loaderHidden' = FALSE
              /\ errorHidden' = TRUE
              /\ progressHidden' = TRUE
              /\ uploads' = Append(uploads, [pc |-> "reading", n |-> n, i |-> 0,
                                             result |-> <<>>])
    /\ UNCHANGED <<landOwnershipSelect, decisionResult, finalScoreDisplay,
                   suggestionsList, callVars>>
    /\ UNCHANGED <<mountVars, appVars>>

\* reader.onload up to the first await: parseKmlFile, then the first
\* analyzeGeometry request
reader_onload(u) ==
    /\ NoMicrotask
    /\ uploads[u].pc = "reading"
    /\ IF uploads[u].n = 0
       THEN \* parseKmlFile throws 'No polygon found in the KML file.'
            /\ displayError
            /\ uploads' = [uploads EXCEPT ![u].pc = "failed"]
            /\ UNCHANGED <<currentKmlData, areaAnalysisResults, fullAreaResults,
                           progressHidden>>
       ELSE /\ currentKmlData' = u
            /\ progressHidden' = IF uploads[u].n > 1 THEN FALSE ELSE progressHidden
            /\ areaAnalysisResults' = <<>>
            /\ fullAreaResults' = <<>>
            /\ uploads' = [uploads EXCEPT ![u].pc = "fetching"]
            /\ UNCHANGED <<loaderHidden, resultsContentHidden, errorHidden>>
    /\ UNCHANGED <<landOwnershipSelect, decisionResult, finalScoreDisplay,
                   suggestionsList, callVars>>
    /\ UNCHANGED <<mountVars, appVars>>

\* analyzeGeometry after the response has arrived: Steps 2 to 4 and return
analyzeGeometry_resolve(u) ==
    /\ NoMicrotask
    /\ uploads[u].pc = "fetching"
    /\ \E rawData \in UploadRawData :
         LET finalScore == calculateFinalScore(rawData)
         IN /\ finalScoreDisplay' = finalScore
            /\ decisionResult' = analyzeGeometryLabel(finalScore)
            /\ uploads' = [uploads EXCEPT
                  ![u].pc = "returned",
                  ![u].result = [rawData |-> rawData, finalScore |-> finalScore,
                                 subAreas |-> << <<u, uploads[u].i>> >>]]
    /\ UNCHANGED <<landOwnershipSelect, currentKmlData, areaAnalysisResults,
                   fullAreaResults, suggestionsList, loaderHidden, progressHidden,
                   errorHidden, resultsContentHidden, callVars>>
    /\ UNCHANGED <<mountVars, appVars>>

\* analyzeGeometry throws (no connection, server error); the catch of
\* reader.onload reports it
analyzeGeometry_reject(u) ==
    /\ NoMicrotask
    /\ uploads[u].pc = "fetching"
    /\ displayError
    /\ uploads' = [uploads EXCEPT ![u].pc = "failed"]
    /\ UNCHANGED <<landOwnershipSelect, currentKmlData, areaAnalysisResults,
                   fullAreaResults, decisionResult, finalScoreDisplay,
                   suggestionsList, progressHidden, callVars>>
    /\ UNCHANGED <<mountVars, appVars>>

\* reader.onload after await analyzeGeometry: push the result, then either
\* the next request or the rest of the handler
reader_onload_resume(u) ==
    /\ uploads[u].pc = "returned"
    /\ LET i       == uploads[u].i
           n       == uploads[u].n
           pushed  == Append(fullAreaResults,
                        [rawData |-> uploads[u].result.rawData,
                         finalScore |-> uploads[u].result.finalScore,
                         subAreas |-> uploads[u].result.subAreas,
                         areaId |-> <<u, i>>, areaIndex |-> i, isFullArea |-> TRUE])
       IN IF i + 1 < n
          THEN /\ fullAreaResults' = pushed
               /\ uploads' = [uploads EXCEPT ![u].pc = "fetching", ![u].i = i + 1,
                                             ![u].result = <<>>]
               /\ UNCHANGED <<areaAnalysisResults, decisionResult, finalScoreDisplay,
                              suggestionsList, loaderHidden, progressHidden,
                              errorHidden, resultsContentHidden>>
          ELSE IF \E k \in DOMAIN pushed : pushed[k].areaIndex >= n
          THEN \* kmlData.features[result.areaIndex] is undefined: TypeError
               /\ fullAreaResults' = pushed
               /\ displayError
               /\ uploads' = [uploads EXCEPT ![u].pc = "failed", ![u].result = <<>>]
               /\ UNCHANGED <<areaAnalysisResults, decisionResult, finalScoreDisplay,
                              suggestionsList, progressHidden>>
          ELSE /\ fullAreaResults' = pushed
               /\ areaAnalysisResults' =
                     [k \in DOMAIN pushed |->
                         [pushed[k] EXCEPT !.subAreas = << <<u, pushed[k].areaIndex>> >>]]
               /\ progressHidden' = TRUE
               /\ displayResults(pushed[1])
               /\ loaderHidden' = TRUE
               /\ resultsContentHidden' = FALSE
               /\ uploads' = [uploads EXCEPT ![u].pc = "done", ![u].result = <<>>]
               /\ UNCHANGED errorHidden
    /\ UNCHANGED <<landOwnershipSelect, currentKmlData, callVars>>
    /\ UNCHANGED <<mountVars, appVars>>

\* the user picks an option of the #land-ownership dropdown
SelectLandOwnership ==
    /\ NoMicrotask
    /\ \E v \in {1, 2} : v # landOwnershipSelect /\ landOwnershipSelect' = v
    /\ UNCHANGED <<domVars, callVars>>
    /\ UNCHANGED <<mountVars, appVars>>

\* window.testScoring(), called from the console between two events
testScoring ==
    /\ NoMicrotask
    /\ op' = "testScoring"
    /\ arg' = <<>>
    /\ called' = TRUE
    /\ ret' = [perfectScore |-> calculateFinalScore(perfectData),
               poorScore |-> calculateFinalScore(poorData),
               waterScore |-> calculateFinalScore(waterData)]
    /\ UNCHANGED <<landOwnershipSelect, domVars>>
    /\ UNCHANGED <<mountVars, appVars>>

Init ==
    /\ landOwnershipSelect = 1
    /\ Init_dom
    /\ Init_call
    /\ Init_mounted
    /\ Init_app

Next ==
    \/ handleKmlUpload
    \/ \E u \in DOMAIN uploads : reader_onload(u)
    \/ \E u \in DOMAIN uploads : analyzeGeometry_resolve(u)
    \/ \E u \in DOMAIN uploads : analyzeGeometry_reject(u)
    \/ \E u \in DOMAIN uploads : reader_onload_resume(u)
    \/ SelectLandOwnership
    \/ testScoring

Spec == Init /\ [][Next]_vars

\* the user chooses the next file only after the handling of the previous
\* one has ended
handleKmlUpload_idle ==
    /\ \A u \in DOMAIN uploads : uploads[u].pc \in {"done", "failed"}
    /\ handleKmlUpload

NextSequential ==
    \/ handleKmlUpload_idle
    \/ \E u \in DOMAIN uploads : reader_onload(u)
    \/ \E u \in DOMAIN uploads : analyzeGeometry_resolve(u)
    \/ \E u \in DOMAIN uploads : analyzeGeometry_reject(u)
    \/ \E u \in DOMAIN uploads : reader_onload_resume(u)
    \/ SelectLandOwnership
    \/ testScoring

SpecSequential == Init /\ [][NextSequential]_vars

----------------------------------------------------------------------------
\* The SolarSuitability component: mounting, the polling interval and
\* initAnalyzer.  UploadCard renders #upload-btn and #kml-upload with the
\* component, so the elements of the current mount exist while it is
\* mounted.

\* initAnalyzer(), called with the elements of the current mount in the
\* document
initAnalyzer ==
    IF initialized
    THEN UNCHANGED <<initialized, listeners>>
    ELSE /\ initialized' = TRUE
         /\ listeners' = [listeners EXCEPT ![mountCount] = @ + 1]

\* the component is mounted: the effect starts the interval
SolarSuitability_mount ==
    /\ ~mounted /\ mountCount < MaxMounts
    /\ mounted' = TRUE
    /\ mountCount' = mountCount + 1
    /\ interval' = TRUE
    /\ UNCHANGED <<initialized, listeners>>
    /\ UNCHANGED <<landOwnershipSelect, domVars, callVars, appVars>>

\* the component is unmounted: the cleanup of the effect clears the interval
SolarSuitability_unmount ==
    /\ mounted
    /\ mounted' = FALSE
    /\ interval' = FALSE
    /\ UNCHANGED <<initialized, mountCount, listeners>>
    /\ UNCHANGED <<landOwnershipSelect, domVars, callVars, appVars>>

\* a tick of the interval: both elements are found
interval_tick ==
    /\ mounted /\ interval
    /\ initAnalyzer
    /\ interval' = FALSE
    /\ UNCHANGED <<mounted, mountCount>>
    /\ UNCHANGED <<landOwnershipSelect, domVars, callVars, appVars>>

\* the user picks a file: the change event of the current #kml-upload runs
\* the listeners attached to it
kmlUploadInput_change ==
    /\ mounted /\ listeners[mountCount] > 0
    /\ handleKmlUpload_idle

InitMount ==
    /\ landOwnershipSelect = 1
    /\ Init_dom
    /\ Init_call
    /\ Init_mount
    /\ Init_app

NextMount ==
    \/ SolarSuitability_mount
    \/ SolarSuitability_unmount
    \/ interval_tick
    \/ kmlUploadInput_change
    \/ \E u \in DOMAIN uploads : reader_onload(u)
    \/ \E u \in DOMAIN uploads : analyzeGeometry_resolve(u)
    \/ \E u \in DOMAIN uploads : analyzeGeometry_reject(u)
    \/ \E u \in DOMAIN uploads : reader_onload_resume(u)
    \/ SelectLandOwnership

SpecMount == InitMount /\ [][NextMount]_vars

----------------------------------------------------------------------------
\* The panel dashboard (App): panes, parameters, date range and the
\* panel-data requests.  A handler is one action together with the effect
\* that React runs after the render it causes.  loadingMap, panelLstData
\* and activePaneIndex, which none of the modelled conditions reads, are
\* left out.

visiblePanels(pns) == {pns[k] : k \in DOMAIN pns}

\* paramsToFetch: the entry is missing, an error, or of another range
needsFetch(map, panel, param, range) ==
    LET existing == map[<<panel, param>>]
    IN ~existing.present \/ existing.error \/ existing.range # range

\* ControlPanel is rendered
ControlPanelShown == isAuthed /\ ~compareMode /\ ~filterMode

\* the panel-data fetch effect, run in a render with the given state: the
\* map it leaves and the requests it sends
fetchEffect(authed, pns, map, params, range, tick) ==
    IF ~authed \/ params = {} \/ tick = 0 \/ pns = <<>>
    THEN [map |-> map, requests |-> {}]
    ELSE IF range = InvalidRange
    THEN [map |-> [q \in DOMAIN map |->
                      IF q[1] \in visiblePanels(pns) /\ q[2] \in params
                      THEN Entry(TRUE, range) ELSE map[q]],
          requests |-> {}]
    ELSE [map |-> map,
          requests |-> {[panel |-> q[1], parameter |-> q[2], range |-> range] :
                           q \in {r \in visiblePanels(pns) \X params :
                                     needsFetch(map, r[1], r[2], range)}}]

\* the render after a change of a dependency of the effect
commit(authed, pns, map, params, range, tick) ==
    LET e == fetchEffect(authed, pns, map, params, range, tick)
    IN /\ panelDataMap' = e.map
       /\ panelRequests' = panelRequests \cup e.requests

handleLogin ==
    /\ ~isAuthed
    /\ isAuthed' = TRUE
    /\ commit(TRUE, panes, panelDataMap, selectedParameters, dateRange, analyzeTick)
    /\ UNCHANGED <<panes, selectedParameters, dateRange, analyzeTick, analyzeCalls, modeVars>>
    /\ UNCHANGED <<landOwnershipSelect, domVars, callVars, mountVars>>

handleLogout ==
    /\ ControlPanelShown
    /\ isAuthed' = FALSE
    /\ compareMode' = FALSE
    /\ compareState' = defaultCompareState
    /\ filterMode' = FALSE
    /\ filterMatchedIds' = NullIds
    /\ UNCHANGED <<panelVars, compareRequests>>
    /\ UNCHANGED <<landOwnershipSelect, domVars, callVars, mountVars>>

\* setStartDate / setEndDate of ControlPanel
setDateRange ==
    /\ ControlPanelShown
    /\ \E r \in {InvalidRange} \cup Ranges :
         /\ r # dateRange
         /\ dateRange' = r
         /\ commit(isAuthed, panes, panelDataMap, selectedParameters, r, analyzeTick)
    /\ UNCHANGED <<isAuthed, panes, selectedParameters, analyzeTick, analyzeCalls, modeVars>>
    /\ UNCHANGED <<landOwnershipSelect, domVars, callVars, mountVars>>

\* the map without the entries of a parameter
withoutParameter(map, param) ==
    [q \in DOMAIN map |-> IF q[2] = param THEN NoEntry ELSE map[q]]

handleToggleParameter ==
    /\ ControlPanelShown
    /\ \E param \in PARAMETER_OPTIONS :
         IF param \in selectedParameters
         THEN IF Cardinality(selectedParameters) = 1
              THEN UNCHANGED <<selectedParameters, panelDataMap, panelRequests>>
              ELSE /\ selectedParameters' = selectedParameters \ {param}
                   /\ commit(isAuthed, panes, withoutParameter(panelDataMap, param),
                             selectedParameters \ {param}, dateRange, analyzeTick)
         ELSE /\ selectedParameters' = selectedParameters \cup {param}
              /\ commit(isAuthed, panes, panelDataMap, selectedParameters \cup {param},
                        dateRange, analyzeTick)
    /\ UNCHANGED <<isAuthed, panes, dateRange, analyzeTick, analyzeCalls, modeVars>>
    /\ UNCHANGED <<landOwnershipSelect, domVars, callVars, mountVars>>

\* the map reduced to the parameters selected when handleAnalyze was called
onlyParameters(map, params) ==
    [q \in DOMAIN map |-> IF q[2] \in params THEN map[q] ELSE NoEntry]

\* the end of handleAnalyze: setPanelDataMap, then the finally block
handleAnalyze_finish(params) ==
    /\ analyzeTick' = Min(analyzeTick + 1, MaxTicks)
    /\ commit(isAuthed, panes, onlyParameters(panelDataMap, params),
              selectedParameters, dateRange, Min(analyzeTick + 1, MaxTicks))

\* handleAnalyze up to await fetchAllLstData, or to its end when nothing is
\* awaited
handleAnalyze ==
    /\ ControlPanelShown
    /\ IF "LST" \in selectedParameters /\ dateRange # InvalidRange
       THEN /\ analyzeCalls' = analyzeCalls \cup {selectedParameters}
            /\ UNCHANGED <<analyzeTick, panelDataMap, panelRequests>>
       ELSE /\ handleAnalyze_finish(selectedParameters)
            /\ UNCHANGED analyzeCalls
    /\ UNCHANGED <<isAuthed, panes, selectedParameters, dateRange, modeVars>>
    /\ UNCHANGED <<landOwnershipSelect, domVars, callVars, mountVars>>

\* handleAnalyze after fetchAllLstData has settled
handleAnalyze_resume ==
    /\ \E params \in analyzeCalls :
         /\ analyzeCalls' = analyzeCalls \ {params}
         /\ handleAnalyze_finish(params)
    /\ UNCHANGED <<isAuthed, panes, selectedParameters, dateRange, modeVars>>
    /\ UNCHANGED <<landOwnershipSelect, domVars, callVars, mountVars>>

\* a click on a panel of the map
handlePanelClick ==
    /\ isAuthed
    /\ \E panelId \in Panels :
         IF panelId \in visiblePanels(panes)
         THEN UNCHANGED <<panes, panelDataMap, panelRequests>>
         ELSE /\ Len(panes) < MaxPanes
              /\ panes' = Append(panes, panelId)
              /\ LET immediate ==
                        IF analyzeTick > 0 /\ selectedParameters # {}
                           /\ dateRange # InvalidRange
                        THEN {[panel |-> panelId, parameter |-> a, range |-> dateRange] :
                                 a \in {b \in selectedParameters :
                                           needsFetch(panelDataMap, panelId, b, dateRange)}}
                        ELSE {}
                     e == fetchEffect(isAuthed, Append(panes, panelId), panelDataMap,
                                      selectedParameters, dateRange, analyzeTick)
                 IN /\ panelDataMap' = e.map
                    /\ panelRequests' = panelRequests \cup immediate \cup e.requests
    /\ UNCHANGED <<isAuthed, selectedParameters, dateRange, analyzeTick, analyzeCalls, modeVars>>
    /\ UNCHANGED <<landOwnershipSelect, domVars, callVars, mountVars>>

\* the sequence without its k-th element
removeAt(seq, k) == SubSeq(seq, 1, k - 1) \o SubSeq(seq, k + 1, Len(seq))

\* the map without the entries of a panel
withoutPanel(map, panel) ==
    [q \in DOMAIN map |-> IF q[1] = panel THEN NoEntry ELSE map[q]]

handleClosePanel ==
    /\ ControlPanelShown
    /\ \E paneIndex \in DOMAIN panes :
         /\ panes' = removeAt(panes, paneIndex)
         /\ commit(isAuthed, removeAt(panes, paneIndex),
                   withoutPanel(panelDataMap, panes[paneIndex]),
                   selectedParameters, dateRange, analyzeTick)
    /\ UNCHANGED <<isAuthed, selectedParameters, dateRange, analyzeTick, analyzeCalls, modeVars>>
    /\ UNCHANGED <<landOwnershipSelect, domVars, callVars, mountVars>>

\* the pane shows the next or the previous panel of allPanelIds
handleNavigatePanelHistory ==
    /\ ControlPanelShown
    /\ \E paneIndex \in DOMAIN panes, direction \in {"prev", "next"} :
         LET currentIndex == panes[paneIndex]
             newPanelId   == IF direction = "prev"
                             THEN (IF currentIndex > 1 THEN currentIndex - 1 ELSE MaxPanels)
                             ELSE (IF currentIndex < MaxPanels THEN currentIndex + 1 ELSE 1)
             newPanes     == [panes EXCEPT ![paneIndex] = newPanelId]
         IN /\ panes' = newPanes
            /\ commit(isAuthed, newPanes, panelDataMap, selectedParameters, dateRange,
                      analyzeTick)
    /\ UNCHANGED <<isAuthed, selectedParameters, dateRange, analyzeTick, analyzeCalls, modeVars>>
    /\ UNCHANGED <<landOwnershipSelect, domVars, callVars, mountVars>>

\* a panel-data request settles: .then stores the data, .catch the error,
\* both with the dates the request was sent with
panelData_settle ==
    /\ \E req \in panelRequests, failed \in BOOLEAN :
         /\ panelRequests' = panelRequests \ {req}
         /\ panelDataMap' = [panelDataMap EXCEPT ![<<req.panel, req.parameter>>] =
                                Entry(failed, req.range)]
    /\ UNCHANGED <<isAuthed, panes, selectedParameters, dateRange, analyzeTick,
                   analyzeCalls, modeVars>>
    /\ UNCHANGED <<landOwnershipSelect, domVars, callVars, mountVars>>

InitPanels ==
    /\ landOwnershipSelect = 1
    /\ Init_dom
    /\ Init_call
    /\ Init_mounted
    /\ Init_app

NextPanels ==
    \/ handleLogin
    \/ handleLogout
    \/ setDateRange
    \/ handleToggleParameter
    \/ handleAnalyze
    \/ handleAnalyze_resume
    \/ handlePanelClick
    \/ handleClosePanel
    \/ handleNavigatePanelHistory
    \/ panelData_settle

SpecPanels == InitPanels /\ [][NextPanels]_vars

----------------------------------------------------------------------------
\* The panel dashboard (App): compare mode and filter mode.  ComparePanel is
\* rendered in compare mode, FilterPanel in filter mode when compare mode is
\* off, ControlPanel when both are off.

ComparePanelShown == isAuthed /\ compareMode

FilterPanelShown == isAuthed /\ ~compareMode /\ filterMode

\* onEnterCompare of ControlPanel; selectedPanel is 0 when no panel is
\* selected
handleEnterCompare ==
    /\ ControlPanelShown
    /\ IF filterMode
       THEN filterMode' = FALSE /\ filterMatchedIds' = NullIds
       ELSE UNCHANGED <<filterMode, filterMatchedIds>>
    /\ compareMode' = TRUE
    /\ \E selectedPanel \in 0..MaxPanels :
         compareState' = [defaultCompareState EXCEPT !.idA = selectedPanel,
                                                     !.idB = 0,
                                                     !.range = dateRange]
    /\ UNCHANGED <<isAuthed, panelVars, compareRequests>>
    /\ UNCHANGED <<landOwnershipSelect, domVars, callVars, mountVars>>

\* onExit of ComparePanel
handleExitCompare ==
    /\ ComparePanelShown
    /\ compareMode' = FALSE
    /\ compareState' = defaultCompareState
    /\ UNCHANGED <<isAuthed, panelVars, filterMode, filterMatchedIds, compareRequests>>
    /\ UNCHANGED <<landOwnershipSelect, domVars, callVars, mountVars>>

\* onUpdateMatchingPanels of FilterPanel, which passes an array
handleFilterMatchesUpdate(panelIds) == SetOfIds(panelIds)

\* onEnterFilter of ControlPanel, and the effect of the FilterPanel it
\* mounts, which reports its matchingPanels: all of allPanelIds, empty while
\* the polygons are not loaded
handleEnterFilterMode ==
    /\ ControlPanelShown
    /\ IF compareMode
       THEN compareMode' = FALSE /\ compareState' = defaultCompareState
       ELSE UNCHANGED <<compareMode, compareState>>
    /\ filterMode' = TRUE
    /\ \E allPanelIds \in {{}, Panels} :
         filterMatchedIds' = handleFilterMatchesUpdate(allPanelIds)
    /\ UNCHANGED <<isAuthed, panelVars, compareRequests>>
    /\ UNCHANGED <<landOwnershipSelect, domVars, callVars, mountVars>>

\* onExit of FilterPanel
handleExitFilterMode ==
    /\ FilterPanelShown
    /\ filterMode' = FALSE
    /\ filterMatchedIds' = NullIds
    /\ UNCHANGED <<isAuthed, panelVars, compareMode, compareState, compareRequests>>
    /\ UNCHANGED <<landOwnershipSelect, domVars, callVars, mountVars>>

\* FilterPanel reports a new set of matching panels
FilterPanel_matchingPanels ==
    /\ FilterPanelShown
    /\ \E panelIds \in SUBSET Panels :
         /\ handleFilterMatchesUpdate(panelIds) # filterMatchedIds
         /\ filterMatchedIds' = handleFilterMatchesUpdate(panelIds)
    /\ UNCHANGED <<isAuthed, panelVars, compareMode, compareState, filterMode,
                   compareRequests>>
    /\ UNCHANGED <<landOwnershipSelect, domVars, callVars, mountVars>>

\* onFieldChange of ComparePanel
handleCompareFieldChange ==
    /\ ComparePanelShown
    /\ \E field \in {"idA", "idB", "range"} :
         \E value \in (IF field = "range"
                       THEN {EmptyRange, InvalidRange} \cup Ranges
                       ELSE 0..MaxPanels) :
            /\ compareState[field] # value
            /\ compareState' = [compareState EXCEPT ![field] = value,
                                                    !.error = FALSE,
                                                    !.fieldErrors = @ \ {field}]
    /\ UNCHANGED <<isAuthed, panelVars, compareMode, filterMode, filterMatchedIds,
                   compareRequests>>
    /\ UNCHANGED <<landOwnershipSelect, domVars, callVars, mountVars>>

\* the fields handleCompareAnalyse finds wrong
newFieldErrors(state) ==
    {field \in {"idA", "idB"} : state[field] = 0}
        \cup (IF state.range \in {EmptyRange, InvalidRange} THEN {"range"} ELSE {})

\* onAnalyse of ComparePanel, up to await Promise.allSettled
handleCompareAnalyse ==
    /\ ComparePanelShown
    /\ Cardinality(compareRequests) < MaxCompareRequests
    /\ \E polygonsLoaded \in BOOLEAN :
         IF newFieldErrors(compareState) # {}
         THEN /\ compareState' =
                    [compareState EXCEPT !.fieldErrors = @ \cup newFieldErrors(compareState),
                                         !.error = TRUE]
              /\ UNCHANGED compareRequests
         ELSE IF ~polygonsLoaded
         THEN /\ compareState' = [compareState EXCEPT !.fieldErrors = {}, !.error = TRUE]
              /\ UNCHANGED compareRequests
         ELSE /\ compareState' = [compareState EXCEPT !.loading = TRUE,
                                                      !.error = FALSE,
                                                      !.fieldErrors = {}]
              /\ compareRequests' = compareRequests \cup
                     {[idA |-> compareState.idA, idB |-> compareState.idB,
                       range |-> compareState.range]}
    /\ UNCHANGED <<isAuthed, panelVars, compareMode, filterMode, filterMatchedIds>>
    /\ UNCHANGED <<landOwnershipSelect, domVars, callVars, mountVars>>

\* handleCompareAnalyse after both getPanelById calls have settled
handleCompareAnalyse_resume ==
    /\ \E req \in compareRequests, fulfilledA \in BOOLEAN, fulfilledB \in BOOLEAN :
         /\ compareRequests' = compareRequests \ {req}
         /\ compareState' =
                [idA |-> req.idA, idB |-> req.idB, range |-> req.range,
                 loading |-> FALSE,
                 error |-> ~fulfilledA \/ ~fulfilledB,
                 dataA |-> IF fulfilledA THEN req.idA ELSE 0,
                 dataB |-> IF fulfilledB THEN req.idB ELSE 0,
                 fieldErrors |-> (IF fulfilledA THEN {} ELSE {"idA"})
                                     \cup (IF fulfilledB THEN {} ELSE {"idB"})]
    /\ UNCHANGED <<isAuthed, panelVars, compareMode, filterMode, filterMatchedIds>>
    /\ UNCHANGED <<landOwnershipSelect, domVars, callVars, mountVars>>

InitModes ==
    /\ landOwnershipSelect = 1
    /\ Init_dom
    /\ Init_call
    /\ Init_mounted
    /\ Init_app

NextModes ==
    \/ handleLogin
    \/ handleLogout
    \/ setDateRange
    \/ handleEnterCompare
    \/ handleExitCompare
    \/ handleEnterFilterMode
    \/ handleExitFilterMode
    \/ FilterPanel_matchingPanels
    \/ handleCompareFieldChange
    \/ handleCompareAnalyse
    \/ handleCompareAnalyse_resume

SpecModes == InitModes /\ [][NextModes]_vars

----------------------------------------------------------------------------
\* Properties of the scoring functions (checked under SpecScore)

CalledFinal == op = "calculateFinalScore" /\ called

CalledScore == op = "calculateScore" /\ called

CalledLandCover == op = "calculateEnhancedLandCoverScore" /\ called

\* sum of score * weight over the first i parameters, from the scores of a
\* call and the configured weights
RECURSIVE SumOfWeighted(_, _)
SumOfWeighted(scores, i) ==
    IF i = 0 THEN 0
    ELSE SumOfWeighted(scores, i - 1) + scores[i] * parametersConfig[i].weight

RECURSIVE SumOfWeights(_)
SumOfWeights(i) ==
    IF i = 0 THEN 0 ELSE SumOfWeights(i - 1) + parametersConfig[i].weight

\* C1: for every rawData record and every land-ownership selection the
\* finalScore returned by calculateFinalScore is the sum of score * weight
\* over the 15 parameters clamped to [0, 10], and the clamp changes nothing:
\* the sum itself lies in [0, 10].
C1_FinalScoreIsWeightedSum ==
    CalledFinal =>
        LET sum == SumOfWeighted(ret.scores, NumParams)
        IN /\ ret.finalScore = Min(10 * FinalUnit, Max(0, sum))
           /\ 0 <= sum /\ sum <= 10 * FinalUnit
           /\ ret.finalScore = sum

\* a call whose weighted sum reaches the upper end of the range
C1_Witness ==
    /\ CalledFinal
    /\ ret.total = 10 * FinalUnit
    /\ ret.finalScore = 10 * FinalUnit

\* C2: the weights of the fifteen parameter specs that calculateFinalScore
\* applies sum to 1.0 (100 hundredths) and the fifteen keys are pairwise
\* distinct.
C2_WeightsSumToOne ==
    CalledFinal =>
        /\ DOMAIN ret.scores = 1..15
        /\ NumParams = 15
        /\ SumOfWeights(NumParams) = 100
        /\ \A i, j \in ParamIdx : parametersConfig[i].key = parametersConfig[j].key => i = j

\* a call that has scored all fifteen parameters, each with a positive weight
C2_Witness ==
    /\ CalledFinal
    /\ DOMAIN ret.scores = 1..15
    /\ \A i \in ParamIdx : parametersConfig[i].weight > 0

\* C3: every per-parameter score lies in [0, 10], for every parameter spec
\* and every raw value, present or missing, every land-cover code and ndvi.
C3_ScoresInRange ==
    /\ CalledFinal =>
          \A i \in ParamIdx : 0 <= ret.scores[i] /\ ret.scores[i] <= 10 * ScoreUnit
    /\ CalledScore =>
          /\ 0 <= ret.s1 /\ ret.s1 <= 10 * ScoreUnit
          /\ 0 <= ret.s2 /\ ret.s2 <= 10 * ScoreUnit
    /\ CalledLandCover => 0 <= ret.score /\ ret.score <= 10 * ScoreUnit

\* grassland with dense vegetation: the correction is cut off at 10
C3_Witness ==
    /\ CalledLandCover
    /\ arg.landCoverCode = Num(30)
    /\ arg.rawData.ndvi = Num(MaxNdvi)
    /\ ret.score = 10 * ScoreUnit

\* 1 + 9 * (v - from) / (to - from) in score units; exact because
\* (to - from) divides 9 * ScoreUnit
Interpolated(v, from, to) ==
    ScoreUnit + ((9 * ScoreUnit) \div (to - from)) * (v - from)

ExpectedScore(v, param) ==
    LET best  == param.thresholds.best
        worst == param.thresholds.worst
    IN IF param.higherIsBetter
       THEN IF v >= best THEN 10 * ScoreUnit
            ELSE IF v <= worst THEN ScoreUnit
            ELSE Interpolated(v, worst, best)
       ELSE IF v <= best THEN 10 * ScoreUnit
            ELSE IF v >= worst THEN ScoreUnit
            ELSE Interpolated(worst - v, 0, worst - best)

\* C4: for a threshold-based spec and a defined value calculateScore returns
\* a value in [1, 10]: 10 at or beyond best, 1 at or beyond worst, and the
\* linear interpolation 1 + 9 * (value - worst) / (best - worst) in between
\* (mirrored when lower is better).
C4_ThresholdScore ==
    CalledScore /\ arg.v1.t = "number" =>
        /\ (9 * ScoreUnit) % Max(arg.param.thresholds.best - arg.param.thresholds.worst,
                                 arg.param.thresholds.worst - arg.param.thresholds.best) = 0
        /\ ret.s1 = ExpectedScore(arg.v1.n, arg.param)
        /\ ScoreUnit <= ret.s1 /\ ret.s1 <= 10 * ScoreUnit

\* a value strictly between worst and best, scored strictly between 1 and 10
C4_Witness ==
    /\ CalledScore
    /\ arg.v1.t = "number"
    /\ arg.param.higherIsBetter
    /\ arg.param.thresholds.worst < arg.v1.n /\ arg.v1.n < arg.param.thresholds.best
    /\ ScoreUnit < ret.s1 /\ ret.s1 < 10 * ScoreUnit

\* C6 as stated: every parameter scored from rawData (all but
\* landOwnership, which is scored from the selection) whose raw value is
\* missing (undefined or null) scores 0.
C6_MissingScoresZero ==
    CalledFinal =>
        \A i \in ParamIdx :
            /\ parametersConfig[i].key # "landOwnership"
            /\ IsMissing(arg.rawData[parametersConfig[i].key])
            => ret.scores[i] = 0

\* C6 amended: a missing raw value scores 0 for every threshold-based
\* parameter, and that 0 enters the weighted sum; a missing elevation scores
\* 2, a missing landCover scores as an unrecognised class (5, or 0 under the
\* water override), and the landOwnership score is 10 or 5 by the selection
\* whether or not rawData.landOwnership is present.
C6_MissingThresholdScoresZero ==
    CalledFinal =>
        /\ \A i \in ParamIdx :
              LET key == parametersConfig[i].key
                  v   == arg.rawData[key]
              IN IsMissing(v) =>
                    ret.scores[i] =
                        IF parametersConfig[i].hasThresholds THEN 0
                        ELSE IF key = "elevation" THEN 2 * ScoreUnit
                        ELSE IF key = "landCover"
                             THEN IF arg.rawData.ndvi.t = "number" /\ arg.rawData.ndvi.n < -1
                                  THEN 0 ELSE 5 * ScoreUnit
                        ELSE IF landOwnershipSelect = 1 THEN 10 * ScoreUnit
                             ELSE 5 * ScoreUnit
        /\ ret.finalScore = SumOfWeighted(ret.scores, NumParams)

\* a record without slope, ghi, elevation and landCover
C6_Witness ==
    /\ CalledFinal
    /\ arg.rawData.slope = Undefined /\ ret.scores[1] = 0
    /\ arg.rawData.ghi = Undefined /\ ret.scores[2] = 0
    /\ arg.rawData.elevation = Undefined /\ ret.scores[4] = 2 * ScoreUnit
    /\ arg.rawData.landCover = Undefined /\ ret.scores[5] = 5 * ScoreUnit

\* C7: for threshold-based specs the score is monotonic in the raw value
\* over the whole value range: non-decreasing when higher is better,
\* non-increasing otherwise.
C7_Monotonic ==
    CalledScore /\ arg.v1.t = "number" /\ arg.v2.t = "number" /\ arg.v1.n <= arg.v2.n =>
        IF arg.param.higherIsBetter THEN ret.s1 <= ret.s2 ELSE ret.s1 >= ret.s2

\* two values between worst and best with strictly ordered scores
C7_Witness ==
    /\ CalledScore
    /\ ~arg.param.higherIsBetter
    /\ arg.v1.t = "number" /\ arg.v2.t = "number"
    /\ arg.param.thresholds.best < arg.v1.n /\ arg.v1.n < arg.v2.n
    /\ arg.v2.n < arg.param.thresholds.worst
    /\ ret.s1 > ret.s2

\* C8: whenever ndvi < -0.1 calculateEnhancedLandCoverScore returns 0 for
\* every land-cover code, recognised, unrecognised or missing.
C8_WaterOverride ==
    CalledLandCover /\ arg.rawData.ndvi.t = "number" /\ arg.rawData.ndvi.n < -1 =>
        ret.score = 0

\* grassland, whose class score is 10, with ndvi -0.2
C8_Witness ==
    /\ CalledLandCover
    /\ arg.landCoverCode = Num(30)
    /\ arg.rawData.ndvi = Num(-2)
    /\ ret.score = 0

\* ndvi < c as the code compares it: a number below c, or null (which
\* compares as 0) when 0 < c; an absent ndvi is below nothing
NdviBelow(ndvi, c) ==
    \/ ndvi.t = "number" /\ ndvi.n < c
    \/ ndvi.t = "null" /\ 0 < c

IsClass(code, classes) == code.t = "number" /\ code.n \in classes

\* the class table of the claim, in score points
ExpectedBaseScore(code, ndvi) ==
    IF IsClass(code, {50}) THEN 1
    ELSE IF IsClass(code, {80, 90, 95}) THEN (IF NdviBelow(ndvi, 1) THEN 0 ELSE 2)
    ELSE IF IsClass(code, {10}) THEN 3
    ELSE IF IsClass(code, {20}) THEN 8
    ELSE IF IsClass(code, {30, 40, 60}) THEN 10
    ELSE 5

\* C9: when the water override does not fire the land-cover base score is
\* 1 for built-up (50), 2 for water/wetland/mangrove (80/90/95) but 0
\* whenever ndvi < 0.1, 3 for tree cover (10), 8 for shrubland (20), 10 for
\* grassland/cropland/bare (30/40/60) and 5 for any other code.
C9_BaseScoreTable ==
    CalledLandCover /\ ~NdviBelow(arg.rawData.ndvi, -1) =>
        /\ ret.baseScore = ExpectedBaseScore(arg.landCoverCode, arg.rawData.ndvi) * ScoreUnit
        /\ ~(Truthy(arg.rawData.ndvi) /\ arg.rawData.ndvi.n > 3) =>
              ret.score = ret.baseScore

\* a wetland with ndvi 0.0: the secondary water check gives 0
C9_Witness ==
    /\ CalledLandCover
    /\ arg.landCoverCode = Num(90)
    /\ arg.rawData.ndvi = Num(0)
    /\ ret.baseScore = 0
    /\ ret.score = 0

\* the class has a usability factor of at least 0.6 (tenths)
UsableClass(code) ==
    /\ code.t = "number"
    /\ code.n \in DOMAIN landUsabilityFactors
    /\ landUsabilityFactors[code.n] >= 6

\* C10: past the water override, the land-cover score differs from the base
\* score only if ndvi > 0.3, baseScore > 0 and the class's
\* landUsabilityFactor >= 0.6; then it is
\* min(10, baseScore + ndvi * 0.2 * landUsabilityFactor); in every other
\* case it is the base score, and the correction never lowers a score.
C10_VegetationCorrection ==
    CalledLandCover /\ ~NdviBelow(arg.rawData.ndvi, -1) =>
        LET ndvi    == arg.rawData.ndvi
            applies == /\ ndvi.t = "number" /\ ndvi.n > 3
                       /\ ret.baseScore > 0
                       /\ UsableClass(arg.landCoverCode)
        IN /\ ret.score # ret.baseScore => applies
           /\ applies =>
                 ret.score = Min(10 * ScoreUnit,
                                 ret.baseScore
                                   + ndvi.n * 2 * landUsabilityFactors[arg.landCoverCode.n]
                                       * (ScoreUnit \div 1000))
           /\ ~applies => ret.score = ret.baseScore
           /\ ret.score >= ret.baseScore

\* shrubland with ndvi 0.5: 8 + 0.5 * 0.2 * 0.8 = 8.08
C10_Witness ==
    /\ CalledLandCover
    /\ arg.landCoverCode = Num(20)
    /\ arg.rawData.ndvi = Num(5)
    /\ ret.baseScore = 8 * ScoreUnit
    /\ ret.score = 8 * ScoreUnit + 80 * (ScoreUnit \div 1000)

----------------------------------------------------------------------------
\* Properties of the upload flow (checked under Spec)

DecisionWritten == decisionResult # "--"

\* C5 as stated: every value written to the decision display is "Yes",
\* "Review" or "No", chosen by the bands >= 7, [5, 7) and < 5.
C5_DecisionBands ==
    DecisionWritten =>
        /\ decisionResult \in {"Yes", "Review", "No"}
        /\ decisionResult = "Yes" <=> finalScoreDisplay >= 7 * FinalUnit
        /\ decisionResult = "Review" <=>
              (5 * FinalUnit <= finalScoreDisplay /\ finalScoreDisplay < 7 * FinalUnit)
        /\ decisionResult = "No" <=> finalScoreDisplay < 5 * FinalUnit

\* C5 amended: displayResults writes "Yes" iff finalScore >= 7, "Review" iff
\* 5 <= finalScore < 7 and "No" iff finalScore < 5; analyzeGeometry writes
\* "Highly Suitable" iff finalScore >= 6 and "Not Suitable" otherwise; every
\* value written to the decision display is one of these five labels, chosen
\* by the bands of its writer from the score shown next to it, and once an
\* upload has completed the display holds the label of displayResults.
C5_DecisionBandsByWriter ==
    /\ DecisionWritten =>
          \/ /\ decisionResult = "Yes"
             /\ finalScoreDisplay >= 7 * FinalUnit
          \/ /\ decisionResult = "Review"
             /\ 5 * FinalUnit <= finalScoreDisplay /\ finalScoreDisplay < 7 * FinalUnit
          \/ /\ decisionResult = "No"
             /\ finalScoreDisplay < 5 * FinalUnit
          \/ /\ decisionResult = "Highly Suitable"
             /\ finalScoreDisplay >= 6 * FinalUnit
          \/ /\ decisionResult = "Not Suitable"
             /\ finalScoreDisplay < 6 * FinalUnit
    /\ \A u \in DOMAIN uploads :
          uploads[u].pc = "returned" => decisionResult \in {"Highly Suitable", "Not Suitable"}
    /\ (uploads # <<>> /\ \A u \in DOMAIN uploads : uploads[u].pc = "done")
          => decisionResult \in {"Yes", "Review", "No"}

\* analyzeGeometry has just written "Highly Suitable" for a score that
\* displayResults would label "Review"
C5_Witness ==
    /\ \E u \in DOMAIN uploads : uploads[u].pc = "returned"
    /\ decisionResult = "Highly Suitable"
    /\ 6 * FinalUnit <= finalScoreDisplay /\ finalScoreDisplay < 7 * FinalUnit

----------------------------------------------------------------------------
\* Land ownership and suggestions

OwnershipIdx == CHOOSE i \in ParamIdx : parametersConfig[i].key = "landOwnership"

\* C11: the landOwnership score of an aggregation is 10 when the dropdown
\* holds 1 and 5 otherwise, whatever rawData.landOwnership holds (1, 2,
\* null) and also when it is absent.
C11_OwnershipFromSelection ==
    CalledFinal =>
        ret.scores[OwnershipIdx] =
            IF landOwnershipSelect = 1 THEN 10 * ScoreUnit ELSE 5 * ScoreUnit

\* the service says private (2), the dropdown says government: score 10
C11_Witness ==
    /\ CalledFinal
    /\ arg.rawData.landOwnership = Num(20)
    /\ landOwnershipSelect = 1
    /\ ret.scores[OwnershipIdx] = 10 * ScoreUnit

CalledDisplay == op = "displayResults" /\ called

\* keys of the first i parameters whose score in the matrix is below 5, in
\* declaration order
RECURSIVE LowScoreKeys(_, _)
LowScoreKeys(scores, i) ==
    IF i = 0 THEN <<>>
    ELSE IF scores[i] < 5 * ScoreUnit
         THEN Append(LowScoreKeys(scores, i - 1), parametersConfig[i].key)
         ELSE LowScoreKeys(scores, i - 1)

\* C12: the suggestion list written by displayResults holds exactly the
\* suggestions of the parameters whose score is strictly below 5, once each
\* and in declaration order; when no parameter scores below 5 the list
\* holds no parameter suggestion.
C12_SuggestionsOfLowScores ==
    CalledDisplay =>
        LET low == LowScoreKeys(ret.scores, NumParams)
        IN IF low = <<>>
           THEN \A k \in DOMAIN suggestionsList : suggestionsList[k] \notin Keys
           ELSE suggestionsList = low

\* more than three parameters score below 5, one of them with score 2
\* (elevation), and the private-land score of exactly 5 adds nothing
C12_Witness ==
    /\ CalledDisplay
    /\ Len(suggestionsList) > 3
    /\ \E k \in DOMAIN suggestionsList : suggestionsList[k] = "elevation"
    /\ landOwnershipSelect = 2
    /\ \A k \in DOMAIN suggestionsList : suggestionsList[k] # "landOwnership"

\* no parameter scores below 5: only the placeholder item is shown
C12_WitnessNone ==
    /\ CalledDisplay
    /\ LowScoreKeys(ret.scores, NumParams) = <<>>
    /\ suggestionsList = <<"Excellent site!">>

----------------------------------------------------------------------------
\* Properties of the partitioner (checked under SpecScore)

CalledDivide == op = "dividePolygonIntoSubAreas" /\ called

\* shoelace area of the source polygon, in half square degrees
SourceArea == calculatePolygonArea(arg.polygon.coordinates)

\* C13: a polygon whose area is at most maxArea, a zero-area polygon
\* included, is returned as the only element of the result, unmodified.
C13_SmallPolygonReturned ==
    (CalledDivide /\ SourceArea <= arg.maxArea) => ret.subAreas = <<arg.polygon>>

\* a ring of three distinct collinear vertices (area 0) comes back as it is
C13_Witness ==
    /\ CalledDivide
    /\ SourceArea = 0
    /\ Cardinality({arg.polygon.coordinates[k] : k \in 1..3}) = 3
    /\ ret.subAreas = <<arg.polygon>>

\* a polygon of exactly maxArea (the default 1.0) comes back as it is
C13_WitnessBoundary ==
    /\ CalledDivide
    /\ SourceArea = arg.maxArea
    /\ arg.maxArea = 2
    /\ ret.subAreas = <<arg.polygon>>

\* the bounding box of a polygon in [longitude, latitude] axis order, in
\* units of 1 / d (d a multiple of the polygon's denominator)
BoundingBox(polygon, d) ==
    LET m  == d \div polygon.den
        xs == {polygon.coordinates[k][1] * m : k \in DOMAIN polygon.coordinates}
        ys == {polygon.coordinates[k][2] * m : k \in DOMAIN polygon.coordinates}
    IN [west |-> SetMin(xs), east |-> SetMax(xs),
        south |-> SetMin(ys), north |-> SetMax(ys)]

BoxesIntersect(a, b) ==
    ~ (a.east < b.west \/ a.west > b.east \/ a.north < b.south \/ a.south > b.north)

\* least g with g * g >= area / maxArea
CeilSqrtOfRatio(area, maxArea) ==
    CHOOSE g \in 0..(area + 1) :
        /\ g * g * maxArea >= area
        /\ \A h \in 0..(g - 1) : h * h * maxArea < area

\* the g x g equal cells of a box, in units of 1 / g
CellsOf(box, g) ==
    {[west  |-> box.west + j * ((box.east - box.west) \div g),
      east  |-> box.west + (j + 1) * ((box.east - box.west) \div g),
      south |-> box.south + i * ((box.north - box.south) \div g),
      north |-> box.south + (i + 1) * ((box.north - box.south) \div g)] :
        i, j \in 0..(g - 1)}

\* C14: for a polygon larger than maxArea the result holds between 1 and
\* gridSize^2 polygons, gridSize = ceil(sqrt(area / maxArea)); each is one
\* of the gridSize x gridSize equal cells of the source polygon's bounding
\* box in the axis order of the source, and the cells kept are exactly
\* those whose bounding box intersects the source's bounding box.
C14_GridCellsOfBoundingBox ==
    (CalledDivide /\ SourceArea > arg.maxArea) =>
        LET g        == CeilSqrtOfRatio(SourceArea, arg.maxArea)
            box      == BoundingBox(arg.polygon, g)
            expected == {c \in CellsOf(box, g) : BoxesIntersect(c, box)}
            returned == [k \in DOMAIN ret.subAreas |->
                            BoundingBox(ret.subAreas[k], g)]
        IN /\ Len(ret.subAreas) \in 1..(g * g)
           /\ {returned[k] : k \in DOMAIN returned} = expected
           /\ Len(returned) = Cardinality(expected)

\* the unit squares (in units of 1 / d) that make up a box
UnitSquares(box) ==
    {[west |-> x, east |-> x + 1, south |-> y, north |-> y + 1] :
        x \in box.west..(box.east - 1), y \in box.south..(box.north - 1)}

Contains(a, b) ==
    a.west <= b.west /\ b.east <= a.east /\ a.south <= b.south /\ b.north <= a.north

\* C15: for a polygon of positive area and maxArea > 0 the result is not
\* empty and the bounding boxes of the returned polygons together cover
\* the bounding box of the source polygon.
C15_CoversBoundingBox ==
    (CalledDivide /\ SourceArea > 0 /\ arg.maxArea > 0) =>
        /\ Len(ret.subAreas) > 0
        /\ LET d   == ret.subAreas[1].den
               box == BoundingBox(arg.polygon, d)
           IN \A sq \in UnitSquares(box) :
                 \E k \in DOMAIN ret.subAreas :
                    Contains(BoundingBox(ret.subAreas[k], d), sq)

----------------------------------------------------------------------------
\* Properties of the upload flow

Ended(u) == uploads[u].pc \in {"done", "failed"}

\* C16: in an upload with several geometries a failed request costs only
\* the result of its own geometry: when the handling has ended every
\* geometry has been requested, and the results computed for the other
\* geometries are stored and displayed.  Stated for the first upload of a
\* behaviour with no second one, where a handling that ends in failure
\* after parsing has had a failed request.
C16_FailureIsolated ==
    (Len(uploads) = 1 /\ uploads[1].n > 1 /\ uploads[1].pc = "failed") =>
        /\ uploads[1].i = uploads[1].n - 1
        /\ Len(fullAreaResults) > 0 =>
              /\ Len(areaAnalysisResults) = Len(fullAreaResults)
              /\ ~resultsContentHidden

\* C17: a file without a polygon ends in the error state without a request,
\* and right after that fullAreaResults and areaAnalysisResults are empty
\* and currentKmlData is null.
C17_NoPolygonNoResult ==
    [][\A u \in DOMAIN uploads :
          (uploads[u].pc = "reading" /\ uploads[u].n = 0
              /\ uploads'[u].pc # "reading") =>
            /\ uploads'[u].pc = "failed"
            /\ ~errorHidden'
            /\ fullAreaResults' = <<>>
            /\ areaAnalysisResults' = <<>>
            /\ currentKmlData' = 0]_vars

\* the weighted sum of the scores of a record under a given selection,
\* clamped to [0, 10]
AggregateWith(rawData, selection) ==
    LET scores == [i \in ParamIdx |->
                      IF i = OwnershipIdx
                      THEN IF selection = 1 THEN 10 * ScoreUnit ELSE 5 * ScoreUnit
                      ELSE paramScore(parametersConfig[i], rawData)]
    IN Min(10 * FinalUnit, Max(0, SumOfWeighted(scores, NumParams)))

\* the steps of upload u: a result appears only with the response and its
\* score is the aggregate of its rawData; a result is stored as it was
\* returned; at the successful end fullAreaResults holds one result per
\* feature, result k - 1 with areaIndex k - 1 and the geometry of feature
\* k - 1 of this upload as its only sub-area
C18_StepsOf(u) ==
    /\ uploads[u].pc = "fetching" => uploads[u].result = <<>>
    /\ (uploads[u].pc = "fetching" /\ uploads'[u].pc = "returned") =>
          uploads'[u].result.finalScore =
              AggregateWith(uploads'[u].result.rawData, landOwnershipSelect)
    /\ (uploads[u].pc = "returned" /\ uploads'[u].pc # "returned") =>
          /\ Len(fullAreaResults') = uploads[u].i + 1
          /\ fullAreaResults'[uploads[u].i + 1].rawData = uploads[u].result.rawData
          /\ fullAreaResults'[uploads[u].i + 1].finalScore = uploads[u].result.finalScore
    /\ (uploads[u].pc = "returned" /\ uploads'[u].pc = "done") =>
          /\ Len(fullAreaResults') = uploads[u].n
          /\ Len(areaAnalysisResults') = uploads[u].n
          /\ \A k \in 1..uploads[u].n :
                /\ fullAreaResults'[k].areaIndex = k - 1
                /\ fullAreaResults'[k].subAreas = << <<u, k - 1>> >>
                /\ areaAnalysisResults'[k].subAreas = << <<u, k - 1>> >>
                /\ \E selection \in {1, 2} :
                      fullAreaResults'[k].finalScore =
                          AggregateWith(fullAreaResults'[k].rawData, selection)

\* C18: within one upload each geometry goes through fetch, aggregate,
\* store in this order: a score exists only after the response, every
\* stored finalScore is the aggregate of the rawData stored with it, and a
\* successful upload of n features leaves exactly n results in
\* fullAreaResults, result i with areaIndex i and the geometry of feature
\* i as its only sub-area.
C18_FetchAggregateStore ==
    [][\A u \in DOMAIN uploads : C18_StepsOf(u)]_vars

\* C19: when an upload ends successfully the score that displayResults
\* writes to the decision matrix is the stored finalScore of the first
\* area, also when the dropdown was changed while requests were in flight.
C19_MatrixShowsStoredScore ==
    [][\A u \in DOMAIN uploads :
          (uploads[u].pc = "returned" /\ uploads'[u].pc = "done") =>
             finalScoreDisplay' = fullAreaResults'[1].finalScore]_vars

\* C20: a call of calculateFinalScore returns the aggregate of its record
\* under the current selection whatever uploads, analyses and selections
\* came before, and the calls of window.testScoring leave the result
\* lists, the current KML data and the display as they are.
C20_AggregationIsPure ==
    [][/\ (op' = "testScoring" /\ callVars' # callVars) =>
             /\ ret'.perfectScore = AggregateWith(perfectData, landOwnershipSelect)
             /\ ret'.poorScore = AggregateWith(poorData, landOwnershipSelect)
             /\ ret'.waterScore = AggregateWith(waterData, landOwnershipSelect)
             /\ UNCHANGED <<domVars, landOwnershipSelect>>
       /\ \A u \in DOMAIN uploads :
             (uploads[u].pc = "fetching" /\ uploads'[u].pc = "returned") =>
                uploads'[u].result.finalScore =
                    AggregateWith(uploads'[u].result.rawData, landOwnershipSelect)]_vars

\* a call made on private land is on record while results of an upload are
\* stored and a further request is in flight
C20_Witness ==
    /\ op = "testScoring" /\ called
    /\ ret.perfectScore = AggregateWith(perfectData, 2)
    /\ Len(fullAreaResults) > 0
    /\ \E u \in DOMAIN uploads : uploads[u].pc = "fetching"

----------------------------------------------------------------------------
\* The reference records of window.testScoring (checked under SpecScore)

IdxOf(key) == CHOOSE i \in ParamIdx : parametersConfig[i].key = key

\* the parameters listed in the all-poor record that are scored from it
\* by calculateScore
PoorThresholdKeys ==
    {"slope", "ghi", "temperature", "proximityToLines", "proximityToRoads",
     "waterAvailability", "soilStability", "shading", "dust", "windSpeed",
     "seismicRisk", "floodRisk"}

DisplayedPoor == CalledDisplay /\ arg.rawData = poorData

----------------------------------------------------------------------------
\* C22: the all-optimal sites

\* every threshold parameter is at or beyond its best threshold
AllThresholdsBest(rawData) ==
    \A i \in ThresholdIdx :
        LET v == rawData[parametersConfig[i].key]
            t == parametersConfig[i].thresholds
        IN /\ v.t = "number"
           /\ IF parametersConfig[i].higherIsBetter THEN v.n >= t.best ELSE v.n <= t.best

\* an all-optimal record: grassland, cropland or bare land whose ndvi is at
\* least -0.1, at an elevation within [50, 1500]
AllOptimal(rawData) ==
    /\ AllThresholdsBest(rawData)
    /\ rawData.elevation.t = "number"
    /\ rawData.elevation.n >= 500 /\ rawData.elevation.n <= 15000
    /\ rawData.landCover \in {Num(300), Num(400), Num(600)}
    /\ rawData.ndvi.t = "number" /\ rawData.ndvi.n >= -1

DisplayedOptimal == CalledDisplay /\ AllOptimal(arg.rawData) /\ landOwnershipSelect = 1

\* 2^-49, the distance from 10 to the number next below it
UlpBelowTen == [m |-> DoubleOfDecimal(1, 1).m, e |-> -49 - 52]

\* C22 as stated: on government land every all-optimal record scores 10 in
\* every parameter, its finalScore is the number 10 and the decision is
\* "Yes"
C22_AllOptimalIsTen ==
    DisplayedOptimal =>
        /\ \A i \in ParamIdx : ret.scores[i] = 10 * ScoreUnit
        /\ calculateFinalScore64(arg.rawData) = DoubleOfDecimal(10, 1)
        /\ decisionResult = "Yes"

\* C22 amended: on government land every all-optimal record scores 10 in
\* every parameter and the decision is "Yes"; its finalScore is the number
\* next below 10 (10 - 2^-49 = 9.999999999999998, shown as 10.00), since the
\* weights as numbers do not add up to 1 exactly
C22_AllOptimalNearTen ==
    DisplayedOptimal =>
        /\ \A i \in ParamIdx : ret.scores[i] = 10 * ScoreUnit
        /\ DoubleLess(calculateFinalScore64(arg.rawData), DoubleOfDecimal(10, 1))
        /\ DoubleAdd(calculateFinalScore64(arg.rawData), UlpBelowTen) = DoubleOfDecimal(10, 1)
        /\ ~DoubleLess(calculateFinalScore64(arg.rawData), DoubleOfDecimal(7, 1))
        /\ finalScoreDisplay = 10 * FinalUnit
        /\ decisionResult = "Yes"

\* an all-optimal cropland record on the thresholds themselves, at the upper
\* end of the elevation range and with ndvi -0.1, has been displayed
C22_Witness ==
    /\ DisplayedOptimal
    /\ arg.rawData.landCover = Num(400)
    /\ arg.rawData.ndvi = Num(-1)
    /\ arg.rawData.elevation = Num(15000)
    /\ arg.rawData.slope = Num(100)
    /\ decisionResult = "Yes"

----------------------------------------------------------------------------
\* C23: the water body

LandCoverIdx == IdxOf("landCover")

\* a water body (landCover 80, ndvi -0.2) all of whose other inputs are
\* optimal
WaterBody(rawData) ==
    /\ AllThresholdsBest(rawData)
    /\ rawData.elevation.t = "number"
    /\ rawData.elevation.n >= 500 /\ rawData.elevation.n <= 15000
    /\ rawData.landCover = Num(800)
    /\ rawData.ndvi = Num(-2)

\* the all-optimal record with the same other inputs
OnGrassland(rawData) == [rawData EXCEPT !.landCover = Num(300), !.ndvi = Num(3)]

\* limbs k, k + 1, ... of a - b - borrow, for a >= b
RECURSIVE BigSubFrom(_, _, _, _)
BigSubFrom(a, b, k, borrow) ==
    IF k > Len(a) THEN <<>>
    ELSE LET t == a[k] - Limb(b, k) - borrow
         IN <<IF t < 0 THEN t + LimbBase ELSE t>>
                \o BigSubFrom(a, b, k + 1, IF t < 0 THEN 1 ELSE 0)

\* a - b as JavaScript computes it, for numbers a >= b
DoubleSub(a, b) ==
    IF b.m = <<>> THEN a
    ELSE LET e == Min(a.e, b.e)
         IN RoundToDouble(BigNorm(BigSubFrom(BigShl(a.m, a.e - e), BigShl(b.m, b.e - e), 1, 0)), e)

ScoredWater == CalledFinal /\ WaterBody(arg.rawData)

----------------------------------------------------------------------------
\* C24: overlapping uploads

\* no upload is being processed
Idle == \A u \in DOMAIN uploads : Ended(u)

\* C24: whenever no upload is being processed and the most recently uploaded
\* file has been analysed to the end, fullAreaResults holds exactly one
\* result per feature of that file, in feature order, and nothing from an
\* earlier file
C24_OnlyLatestFile ==
    (Idle /\ uploads # <<>> /\ uploads[Len(uploads)].pc = "done") =>
        /\ Len(fullAreaResults) = uploads[Len(uploads)].n
        /\ \A k \in DOMAIN fullAreaResults :
              fullAreaResults[k].areaId = <<Len(uploads), k - 1>>

----------------------------------------------------------------------------
\* C25: the loader and the progress indicator

----------------------------------------------------------------------------
\* C26: the upload listeners of the mounted component

\* the polling loop of the current mount has ended
PollingEnded == mounted /\ ~interval

\* C26: whenever the component is mounted and its polling loop has ended,
\* the click and change listeners are attached to the elements of the
\* current mount, exactly once, on the first mount and on every later one
C26_ListenersOnCurrentElements ==
    PollingEnded => listeners[mountCount] = 1

----------------------------------------------------------------------------
\* C27 and C28: invariants of the land-cover score and of the suggestions

\* C27: past the water override the vegetation-bias correction changes the
\* land-cover score for shrubland (code 20) only: for every other code,
\* recognised or not, and every ndvi the score is the base score; for
\* shrubland with ndvi in (0.3, 1] it is 8 + 0.16 * ndvi, at most 8.16, and
\* for shrubland with any other ndvi it is the base score 8
C27_OnlyShrublandCorrected ==
    CalledLandCover /\ ~NdviBelow(arg.rawData.ndvi, -1) =>
        LET ndvi == arg.rawData.ndvi
            high == ndvi.t = "number" /\ ndvi.n > 3
        IN /\ ~IsClass(arg.landCoverCode, {20}) => ret.score = ret.baseScore
           /\ (IsClass(arg.landCoverCode, {20}) /\ ~high) =>
                 ret.score = ret.baseScore /\ ret.score = 8 * ScoreUnit
           /\ (IsClass(arg.landCoverCode, {20}) /\ high /\ ndvi.n <= 10) =>
                 /\ ret.score = 8 * ScoreUnit + 16 * ndvi.n * (ScoreUnit \div 1000)
                 /\ ret.score <= 816 * (ScoreUnit \div 100)

\* shrubland with ndvi 1.0 scores 8.16
C27_Witness ==
    /\ CalledLandCover
    /\ arg.landCoverCode = Num(20)
    /\ arg.rawData.ndvi = Num(10)
    /\ ret.baseScore = 8 * ScoreUnit
    /\ ret.score = 816 * (ScoreUnit \div 100)

\* elements of a sequence
Range(seq) == {seq[k] : k \in DOMAIN seq}

\* C28: whatever the record and the selection, the landOwnership score shown
\* by displayResults is 5 or 10, and the suggestion of landOwnership is not
\* in the suggestion list
C28_NoOwnershipSuggestion ==
    CalledDisplay =>
        /\ ret.scores[OwnershipIdx] \in {5 * ScoreUnit, 10 * ScoreUnit}
        /\ "landOwnership" \notin Range(suggestionsList)

\* private land, scored 5, on a site with other suggestions
C28_Witness ==
    /\ CalledDisplay
    /\ landOwnershipSelect = 2
    /\ ret.scores[OwnershipIdx] = 5 * ScoreUnit
    /\ "slope" \in Range(suggestionsList)
    /\ "landOwnership" \notin Range(suggestionsList)

----------------------------------------------------------------------------
\* C29: the cached panel data and the selected date range

\* no request and no analysis is in flight
Settled == panelRequests = {} /\ analyzeCalls = {}

\* C29: once all panel-data requests have settled, every cached entry of a
\* visible panel and a selected parameter carries the start_date and
\* end_date of the currently selected date range
C29_CacheMatchesSelectedRange ==
    (isAuthed /\ Settled) =>
        \A q \in visiblePanels(panes) \X selectedParameters :
            panelDataMap[q].present => panelDataMap[q].range = dateRange

----------------------------------------------------------------------------
\* Properties of compare mode and filter mode (checked under SpecModes)

\* C30: compare mode and filter mode are never active together, entering
\* filter mode leaves compareState at its defaults and entering compare mode
\* leaves filterMatchedIds null
C30_ModesExclusiveAndReset ==
    [][/\ ~(compareMode' /\ filterMode')
       /\ handleEnterFilterMode => compareState' = defaultCompareState
       /\ handleEnterCompare => filterMatchedIds' = NullIds]_vars

============================================================================
